---- MODULE Spec2Model ----
(***************************************************************************)
(* Verification model of tutanota-cli: the key chain (crypto/keyChain.ts), *)
(* the former-key walker (crypto/formerGroupKey.ts), session-key           *)
(* resolution and instance decryption (crypto/decryptInstance.ts) and the  *)
(* former-key pre-pass of `folders list` / `mails list` (cli.ts).          *)
(*                                                                         *)
(* The crypto primitives of @tutao/tutanota-crypto are an external         *)
(* library.  A wrapped key or a ciphertext is modelled by what decides the *)
(* library's answer: the key it was produced under, the method it accepts  *)
(* and the plaintext it carries.  Any other key or method makes the        *)
(* primitive throw.                                                        *)
(***************************************************************************)
EXTENDS Integers, Sequences, FiniteSets, TLC

(***************************************************************************)
(* Bounds of the model.                                                    *)
(***************************************************************************)
MaxVer == 2
MaxWireAttrs == 2
MaxAdds == 2
MaxLinks == 2
MaxSets == 2
MaxItems == 3
MaxArrayLen == 2
MaxNameLen == 2
MaxEmailLen == 3
MaxMemberships == 2
MaxFolderType == 10
MaxCommands == 2
MaxBytesLen == 2

(***************************************************************************)
(* Keys.  A key is opaque but for its length in bytes; the first 16 bytes  *)
(* of a key form its 128-bit companion.                                    *)
(***************************************************************************)
KEY_LENGTH_128 == 16
KEY_LENGTH_256 == 32

NoKey == [id |-> "", len |-> 0]
KeyIds == {"a", "b"}
Keys == [id : KeyIds, len : {KEY_LENGTH_128, KEY_LENGTH_256}]

\* uint8ArrayToKey(keyToUint8Array(k).subarray(0, 16))
Key128(k) == [id |-> k.id, len |-> IF k.len > KEY_LENGTH_128 THEN KEY_LENGTH_128 ELSE k.len]

(***************************************************************************)
(* JavaScript values as they occur in wire instances and results.  Every   *)
(* value has the same shape: a tag t, a text s, a number n and, for bytes  *)
(* or a base64 string that carry a ciphertext or a wrapped key, the blob   *)
(* (see the wrapped keys below; for a ciphertext s is the plaintext).      *)
(***************************************************************************)
NoBlob == [wk |-> NoKey, out |-> NoKey, ok |-> {}]
Undefined == [t |-> "undefined", s |-> "", n |-> 0, blob |-> NoBlob]
Null == [t |-> "null", s |-> "", n |-> 0, blob |-> NoBlob]
Str(s) == [t |-> "string", s |-> s, n |-> 0, blob |-> NoBlob]
Num(n) == [t |-> "number", s |-> "", n |-> n, blob |-> NoBlob]
NaN == [t |-> "number", s |-> "NaN", n |-> 0, blob |-> NoBlob]
Bool(b) == [t |-> "boolean", s |-> "", n |-> IF b THEN 1 ELSE 0, blob |-> NoBlob]
BytesV(s) == [t |-> "Uint8Array", s |-> s, n |-> 0, blob |-> NoBlob]
DateV(ms) == [t |-> "Date", s |-> "", n |-> ms, blob |-> NoBlob]
InvalidDate == [t |-> "Date", s |-> "Invalid Date", n |-> 0, blob |-> NoBlob]
Aggregate(s) == [t |-> "object", s |-> s, n |-> 0, blob |-> NoBlob]
\* the base64 text of aesEncrypt(wk, utf8(pt))
Cipher(wk, pt) == [t |-> "string", s |-> pt, n |-> 0, blob |-> [wk |-> wk, out |-> NoKey, ok |-> {"aes"}]]
\* a byte blob as a Uint8Array, and as its base64 text
BytesOf(blob) == [t |-> "Uint8Array", s |-> "", n |-> 0, blob |-> blob]
Base64Of(blob) == [t |-> "string", s |-> "", n |-> 0, blob |-> blob]
\* an array of numbers holding the bytes of a blob
NumArrayOf(blob) == [t |-> "array", s |-> "", n |-> 0, blob |-> blob]
\* a text that base64ToUint8Array rejects
InvalidBase64 == Str("base64blob")

IsNullish(v) == v.t \in {"undefined", "null"}

(***************************************************************************)
(* Type models (crypto/typeModels.ts).                                     *)
(***************************************************************************)
ValueType == [String |-> "String", Number |-> "Number", Date |-> "Date",
              Boolean |-> "Boolean", Bytes |-> "Bytes",
              CompressedString |-> "CompressedString"]

VM(type, enc) == [type |-> type, encrypted |-> enc]

GROUP ==
  [name |-> "Group", encrypted |-> FALSE,
   values |-> ("2273" :> VM("Bytes", FALSE)) @@ ("2269" :> VM("String", FALSE))]

GROUP_KEY ==
  [name |-> "GroupKey", encrypted |-> FALSE,
   values |-> ("2261" :> VM("Bytes", FALSE))]

MAILBOX_GROUP_ROOT ==
  [name |-> "MailboxGroupRoot", encrypted |-> FALSE,
   values |-> ("695" :> VM("String", FALSE)) @@ ("696" :> VM("String", FALSE))
           @@ ("697" :> VM("Number", FALSE)) @@ ("698" :> VM("String", FALSE))]

MAIL_BOX ==
  [name |-> "MailBox", encrypted |-> TRUE,
   values |-> ("127" :> VM("String", FALSE)) @@ ("128" :> VM("String", FALSE))
           @@ ("129" :> VM("Number", FALSE)) @@ ("569" :> VM("Date", FALSE))
           @@ ("590" :> VM("String", FALSE)) @@ ("591" :> VM("Bytes", FALSE))
           @@ ("1396" :> VM("Number", FALSE))]

MAIL_SET ==
  [name |-> "MailSet", encrypted |-> TRUE,
   values |-> ("431" :> VM("String", FALSE)) @@ ("432" :> VM("String", FALSE))
           @@ ("433" :> VM("Number", FALSE)) @@ ("434" :> VM("Bytes", FALSE))
           @@ ("435" :> VM("String", TRUE)) @@ ("436" :> VM("Number", FALSE))
           @@ ("589" :> VM("String", FALSE)) @@ ("1399" :> VM("Number", FALSE))
           @@ ("1479" :> VM("String", TRUE)) @@ ("1459" :> VM("String", FALSE))]

MAIL_SET_ENTRY ==
  [name |-> "MailSetEntry", encrypted |-> FALSE,
   values |-> ("1452" :> VM("String", FALSE)) @@ ("1456" :> VM("String", FALSE))]

MAIL ==
  [name |-> "Mail", encrypted |-> TRUE,
   values |-> ("99" :> VM("String", FALSE)) @@ ("102" :> VM("Bytes", FALSE))
           @@ ("105" :> VM("String", TRUE)) @@ ("107" :> VM("Date", FALSE))
           @@ ("108" :> VM("Number", FALSE)) @@ ("109" :> VM("Boolean", FALSE))
           @@ ("426" :> VM("Boolean", TRUE)) @@ ("466" :> VM("Number", TRUE))
           @@ ("587" :> VM("String", FALSE)) @@ ("617" :> VM("String", TRUE))
           @@ ("866" :> VM("Boolean", TRUE)) @@ ("896" :> VM("Date", FALSE))
           @@ ("1021" :> VM("Number", FALSE)) @@ ("1022" :> VM("Number", FALSE))
           @@ ("1120" :> VM("Number", TRUE)) @@ ("1307" :> VM("Number", FALSE))
           @@ ("1346" :> VM("Number", TRUE)) @@ ("1395" :> VM("Number", FALSE))
           @@ ("1677" :> VM("Number", TRUE)) @@ ("1728" :> VM("Number", FALSE))
           @@ ("1769" :> VM("Boolean", FALSE)) @@ ("1784" :> VM("Date", FALSE))]

\* A TypeModel value of the interface that the registry does not contain:
\* one encrypted attribute of every scalar type, and an encrypted type that
\* is not MailSet or Mail (it takes the default owner attributes).
ALL_TYPES ==
  [name |-> "AllTypes", encrypted |-> TRUE,
   values |-> ("1" :> VM("String", TRUE)) @@ ("2" :> VM("Number", TRUE))
           @@ ("3" :> VM("Date", TRUE)) @@ ("4" :> VM("Boolean", TRUE))
           @@ ("5" :> VM("Bytes", TRUE)) @@ ("6" :> VM("CompressedString", TRUE))
           @@ ("590" :> VM("String", FALSE)) @@ ("591" :> VM("Bytes", FALSE))
           @@ ("1396" :> VM("Number", FALSE))]

ATTR_OWNER_GROUP == "590"
ATTR_OWNER_ENC_SESSION_KEY == "591"
ATTR_OWNER_KEY_VERSION == "1396"
MAIL_SET_ATTR_OWNER_GROUP == "589"
MAIL_SET_ATTR_OWNER_ENC_SESSION_KEY == "434"
MAIL_SET_ATTR_OWNER_KEY_VERSION == "1399"
MAIL_ATTR_OWNER_GROUP == "587"
MAIL_ATTR_OWNER_ENC_SESSION_KEY == "102"
MAIL_ATTR_OWNER_KEY_VERSION == "1395"

getOwnerAttrs(typeModel) ==
  IF typeModel.name = "MailSet"
  THEN [ownerGroup |-> MAIL_SET_ATTR_OWNER_GROUP,
        ownerEncSessionKey |-> MAIL_SET_ATTR_OWNER_ENC_SESSION_KEY,
        ownerKeyVersion |-> MAIL_SET_ATTR_OWNER_KEY_VERSION]
  ELSE IF typeModel.name = "Mail"
  THEN [ownerGroup |-> MAIL_ATTR_OWNER_GROUP,
        ownerEncSessionKey |-> MAIL_ATTR_OWNER_ENC_SESSION_KEY,
        ownerKeyVersion |-> MAIL_ATTR_OWNER_KEY_VERSION]
  ELSE [ownerGroup |-> ATTR_OWNER_GROUP,
        ownerEncSessionKey |-> ATTR_OWNER_ENC_SESSION_KEY,
        ownerKeyVersion |-> ATTR_OWNER_KEY_VERSION]

(***************************************************************************)
(* Wire instances: a map from attribute id (text) to a value.  instance[k] *)
(* of an absent key is undefined.                                          *)
(***************************************************************************)
EmptyInstance == [k \in {} |-> Null]
Get(instance, k) == IF k \in DOMAIN instance THEN instance[k] ELSE Undefined

(***************************************************************************)
(* decryptParsedInstance (crypto/decryptInstance.ts).                      *)
(***************************************************************************)
\* aesDecrypt(key, base64ToUint8Array(String(v))): the plaintext text, or a
\* throw when v is no ciphertext under key (invalid mac / padding / base64).
AesDecryptOk(key, v) == v.t = "string" /\ "aes" \in v.blob.ok /\ v.blob.wk = key

\* Number(str) on the texts of the model.
NumberOfText(str) ==
  IF str = "" \/ str = "0" THEN Num(0)
  ELSE IF str = "1" THEN Num(1)
  ELSE IF str = "42" THEN Num(42)
  ELSE NaN

\* new Date(parseInt(str, 10))
DateOfText(str) ==
  IF str = "0" THEN DateV(0)
  ELSE IF str = "1" THEN DateV(1)
  ELSE IF str = "42" THEN DateV(42)
  ELSE InvalidDate

convertDbToJsTypeBug(type, str) ==
  IF type = ValueType.Bytes THEN BytesV(str)
  ELSE IF type \in {ValueType.String, ValueType.CompressedString} THEN Str(str)
  ELSE IF type = ValueType.Number THEN (IF str = "" THEN Num(0) ELSE NumberOfText(str))
  ELSE IF type = ValueType.Date THEN DateOfText(str)
  ELSE IF type = ValueType.Boolean THEN Bool(str # "")
  ELSE Str(str)
convertDbToJsType(type, str) ==
  IF type = ValueType.Bytes THEN BytesV(str)
  ELSE IF type \in {ValueType.String, ValueType.CompressedString} THEN Str(str)
  ELSE IF type = ValueType.Number THEN (IF str = "" THEN Num(0) ELSE NumberOfText(str))
  ELSE IF type = ValueType.Date THEN DateOfText(str)
  ELSE IF type = ValueType.Boolean THEN Bool(str # "0")
  ELSE Str(str)

valueToDefaultBug(type) ==
  IF type \in {ValueType.String, ValueType.CompressedString} THEN Str("")
  ELSE IF type = ValueType.Number THEN Num(0)
  ELSE IF type = ValueType.Bytes THEN BytesV("")
  ELSE IF type = ValueType.Date THEN DateV(0)
  ELSE Str("")

valueToDefault(type) ==
  IF type \in {ValueType.String, ValueType.CompressedString} THEN Str("")
  ELSE IF type = ValueType.Number THEN Num(0)
  ELSE IF type = ValueType.Bytes THEN BytesV("")
  ELSE IF type = ValueType.Date THEN DateV(0)
  ELSE IF type = ValueType.Boolean THEN Bool(FALSE)
  ELSE Str("")

\* The outcome of one iteration of the loop over typeModel.values:
\* the value stored in result[valueId] and the callback invoked, if any.
DecryptValueBug(valueInfo, encryptedValue, sessionKey) ==
  LET sessionKey128 == IF sessionKey # NoKey THEN Key128(sessionKey) ELSE NoKey
      plain(v) == [value |-> v, callback |-> "none"]
      converted ==
        IF valueInfo.type = ValueType.Bytes THEN BytesV(encryptedValue.s)
        ELSE IF valueInfo.type = ValueType.CompressedString THEN Str(encryptedValue.s)
        ELSE convertDbToJsType(valueInfo.type, encryptedValue.s)
  IN IF ~valueInfo.encrypted THEN plain(encryptedValue)
     ELSE IF sessionKey = NoKey THEN plain(valueToDefault(valueInfo.type))
     ELSE IF IsNullish(encryptedValue) \/ encryptedValue = Str("")
       THEN plain(valueToDefault(valueInfo.type))
     ELSE IF AesDecryptOk(sessionKey, encryptedValue) THEN plain(converted)
     ELSE IF AesDecryptOk(sessionKey128, encryptedValue)
       THEN [value |-> converted, callback |-> "none"]
     ELSE [value |-> valueToDefault(valueInfo.type), callback |-> "failure"]
DecryptValue(valueInfo, encryptedValue, sessionKey) ==
  LET sessionKey128 == IF sessionKey # NoKey THEN Key128(sessionKey) ELSE NoKey
      plain(v) == [value |-> v, callback |-> "none"]
      converted ==
        IF valueInfo.type = ValueType.Bytes THEN BytesV(encryptedValue.s)
        ELSE IF valueInfo.type = ValueType.CompressedString THEN Str(encryptedValue.s)
        ELSE convertDbToJsType(valueInfo.type, encryptedValue.s)
  IN IF ~valueInfo.encrypted THEN plain(encryptedValue)
     ELSE IF sessionKey = NoKey THEN plain(valueToDefault(valueInfo.type))
     ELSE IF IsNullish(encryptedValue) \/ encryptedValue = Str("")
       THEN plain(valueToDefault(valueInfo.type))
     ELSE IF AesDecryptOk(sessionKey, encryptedValue) THEN plain(converted)
     ELSE IF AesDecryptOk(sessionKey128, encryptedValue)
       THEN [value |-> converted, callback |-> "fallback"]
     ELSE [value |-> valueToDefault(valueInfo.type), callback |-> "failure"]

decryptParsedInstance(typeModel, encryptedInstance, sessionKey) ==
  LET ids == DOMAIN typeModel.values
      step(k) == DecryptValue(typeModel.values[k], Get(encryptedInstance, k), sessionKey)
  IN [result |-> [k \in ids \cup DOMAIN encryptedInstance |->
                    IF k \in ids THEN step(k).value ELSE encryptedInstance[k]],
      failed |-> {k \in ids : step(k).callback = "failure"},
      fallback |-> {k \in ids : step(k).callback = "fallback"}]

\* base64ToUint8Array(String(v)) returns bytes for a ciphertext of the server
\* and throws for every other text of the model ("folder-id", "0" and
\* "[object Object]" are no base64)
Base64Ok(v) == v.t = "string" /\ "aes" \in v.blob.ok

\* the try block of one iteration (lines 204-240): the value it stores and
\* the callback it invokes, or the error it lets escape
TryAttribute(valueInfo, encryptedValue, sessionKey) ==
  LET reachesBase64 == /\ valueInfo.encrypted
                       /\ sessionKey # NoKey
                       /\ ~(IsNullish(encryptedValue) \/ encryptedValue = Str(""))
      stored == DecryptValue(valueInfo, encryptedValue, sessionKey)
  IN IF reachesBase64 /\ ~Base64Ok(encryptedValue)
     THEN [escaped |-> TRUE, value |-> Undefined, callback |-> "none"]
     ELSE [escaped |-> FALSE, value |-> stored.value, callback |-> stored.callback]

\* the catch of lines 241-244
CatchAttributeBug(attempt, type) == attempt
CatchAttribute(attempt, type) ==
  IF attempt.escaped
  THEN [escaped |-> FALSE, value |-> valueToDefault(type), callback |-> "failure"]
  ELSE attempt

\* the loop over Object.entries(typeModel.values): st holds result, the ids
\* passed to each callback, the ids whose iteration is over, the caller's
\* instance, and whether an error left the function.  The iterations are
\* independent of each other, so the order CHOOSE takes them in stands for
\* the ascending order of Object.entries.
RECURSIVE DecryptLoop(_, _, _, _)
DecryptLoop(typeModel, sessionKey, todo, st) ==
  IF st.raised \/ todo = {} THEN st
  ELSE LET k == CHOOSE x \in todo : TRUE
           valueInfo == typeModel.values[k]
           done == CatchAttribute(TryAttribute(valueInfo, Get(st.instance, k), sessionKey),
                                  valueInfo.type)
       IN DecryptLoop(typeModel, sessionKey, todo \ {k},
            IF done.escaped THEN [st EXCEPT !.raised = TRUE]
            ELSE [st EXCEPT !.result = (k :> done.value) @@ st.result,
                            !.failed = IF done.callback = "failure" THEN @ \cup {k} ELSE @,
                            !.fallback = IF done.callback = "fallback" THEN @ \cup {k} ELSE @,
                            !.processed = @ \cup {k}])

\* decryptParsedInstance as it runs: the loop, then the copy of the keys
\* outside typeModel.values (lines 246-251); raised when an error left it
NoRun == [raised |-> FALSE, result |-> EmptyInstance, failed |-> {}, fallback |-> {},
          processed |-> {}, instance |-> EmptyInstance]
decryptParsedInstanceRun(typeModel, encryptedInstance, sessionKey) ==
  LET st == DecryptLoop(typeModel, sessionKey, DOMAIN typeModel.values,
                        [NoRun EXCEPT !.instance = encryptedInstance])
      others == DOMAIN st.instance \ DOMAIN typeModel.values
  IN IF st.raised THEN st
     ELSE [st EXCEPT !.result = [k \in others |-> st.instance[k]] @@ st.result]

(***************************************************************************)
(* Wrapped keys (symEncGKey, ownerEncGKey, ownerEncSessionKey byte blobs). *)
(* A blob wraps the key out under the key wk; ok is the set of unwrap      *)
(* methods that accept it ("auth": decryptKey, "legacy":                   *)
(* decryptKeyUnauthenticatedWithDeviceKeyChain).  Garbage unwraps under no *)
(* key.  EmptyBytes is new Uint8Array(0).                                  *)
(***************************************************************************)
Garbage == NoBlob
EmptyBytes == [wk |-> NoKey, out |-> NoKey, ok |-> {"empty"}]
Wrap(wk, out) == [wk |-> wk, out |-> out, ok |-> {"auth"}]

\* decryptKey(key, blob) returns a key, or throws.
decryptKeyOk(key, blob) == key # NoKey /\ blob.wk = key /\ "auth" \in blob.ok
decryptKeyUnauthenticatedOk(key, blob) == key # NoKey /\ blob.wk = key /\ "legacy" \in blob.ok

(***************************************************************************)
(* Version texts.  String(n) is the decimal text of n; Number(s) parses a  *)
(* text (NaN is -1 here).  "" parses to 0 and "01" to 1, as in JavaScript. *)
(***************************************************************************)
DigitChars == <<"0", "1", "2", "3", "4", "5", "6", "7", "8", "9">>

RECURSIVE DigitsOf(_)
DigitsOf(n) == IF n < 10 THEN <<n>> ELSE Append(DigitsOf(n \div 10), n % 10)

RECURSIVE Join(_)
Join(chars) == IF chars = <<>> THEN "" ELSE Head(chars) \o Join(Tail(chars))

String(n) == Join([i \in 1..Len(DigitsOf(n)) |-> DigitChars[DigitsOf(n)[i] + 1]])

Versions == {String(n) : n \in 0..MaxVer}
VersionTexts == Versions \cup {"", "01", "x"}

NumberNaN == 0 - 1
Number(s) ==
  IF s = "" THEN 0
  ELSE IF s = "01" THEN 1
  ELSE IF \E n \in 0..(MaxVer + 1) : String(n) = s
    THEN CHOOSE n \in 0..(MaxVer + 1) : String(n) = s
  ELSE NumberNaN

(***************************************************************************)
(* The key chain (crypto/keyChain.ts).  A Map is a sequence of entries in  *)
(* order of first insertion; Map.set on a present key replaces its value   *)
(* in place.                                                               *)
(***************************************************************************)
Groups == {"ug", "mg"}

EmptyMap == <<>>
MapHas(m, k) == \E i \in 1..Len(m) : m[i].k = k
MapGet(m, k) == IF MapHas(m, k) THEN m[CHOOSE i \in 1..Len(m) : m[i].k = k].v ELSE NoKey
MapSet(m, k, v) ==
  IF MapHas(m, k)
  THEN [i \in 1..Len(m) |-> IF m[i].k = k THEN [k |-> k, v |-> v] ELSE m[i]]
  ELSE Append(m, [k |-> k, v |-> v])
MapKeys(m) == [i \in 1..Len(m) |-> m[i].k]

NoEntry == [present |-> FALSE, currentVersion |-> "", keys |-> EmptyMap]
Entry(currentVersion, keys) == [present |-> TRUE, currentVersion |-> currentVersion, keys |-> keys]
EmptyCache == [g \in Groups |-> NoEntry]

GROUP_TYPE_MAIL == "5"

\* material.memberships.find((m) => m.groupType === GROUP_TYPE_MAIL) ?? null
HasMailMembership(material) ==
  \E i \in 1..Len(material.memberships) : material.memberships[i].groupType = GROUP_TYPE_MAIL
getMailMembershipBug(material) ==
  LET ms == material.memberships
  IN ms[CHOOSE i \in 1..Len(ms) : /\ ms[i].groupType = GROUP_TYPE_MAIL
                                  /\ \A j \in (i + 1)..Len(ms) : ms[j].groupType # GROUP_TYPE_MAIL]
getMailMembership(material) ==
  LET ms == material.memberships
  IN ms[CHOOSE i \in 1..Len(ms) : /\ ms[i].groupType = GROUP_TYPE_MAIL
                                  /\ \A j \in 1..(i - 1) : ms[j].groupType # GROUP_TYPE_MAIL]

\* The two-step unwrap of createKeyChain: with a key longer than 16 bytes the
\* 128-bit companion is tried first, then the full key; otherwise the full key.
\* tried lists the keys in the order they were used.
UnwrapGroupKeyBug(key, symEncGKey) ==
  IF key.len > KEY_LENGTH_128
  THEN IF decryptKeyOk(key, symEncGKey)
       THEN [ok |-> TRUE, key |-> symEncGKey.out, tried |-> <<key>>]
       ELSE [ok |-> decryptKeyOk(Key128(key), symEncGKey),
             key |-> IF decryptKeyOk(Key128(key), symEncGKey) THEN symEncGKey.out ELSE NoKey,
             tried |-> <<key, Key128(key)>>]
  ELSE [ok |-> decryptKeyOk(key, symEncGKey),
        key |-> IF decryptKeyOk(key, symEncGKey) THEN symEncGKey.out ELSE NoKey,
        tried |-> <<key>>]
UnwrapGroupKey(key, symEncGKey) ==
  IF key.len > KEY_LENGTH_128
  THEN IF decryptKeyOk(Key128(key), symEncGKey)
       THEN [ok |-> TRUE, key |-> symEncGKey.out, tried |-> <<Key128(key)>>]
       ELSE [ok |-> decryptKeyOk(key, symEncGKey),
             key |-> IF decryptKeyOk(key, symEncGKey) THEN symEncGKey.out ELSE NoKey,
             tried |-> <<Key128(key), key>>]
  ELSE [ok |-> decryptKeyOk(key, symEncGKey),
        key |-> IF decryptKeyOk(key, symEncGKey) THEN symEncGKey.out ELSE NoKey,
        tried |-> <<key>>]

\* createKeyChain: the cache it returns, or ok = FALSE when a decryptKey threw.
createKeyChain(userPassphraseKey, userKeyMaterial) ==
  LET user == UnwrapGroupKey(userPassphraseKey, userKeyMaterial.userGroup.symEncGKey)
      userGroupId == userKeyMaterial.userGroup.group
      userGroupVersion == userKeyMaterial.userGroup.groupKeyVersion
      cache1 == [EmptyCache EXCEPT ![userGroupId] =
                   Entry(userGroupVersion, MapSet(EmptyMap, userGroupVersion, user.key))]
      mailMembership == getMailMembership(userKeyMaterial)
      mail == UnwrapGroupKey(user.key, mailMembership.symEncGKey)
  IN IF ~user.ok THEN [ok |-> FALSE, cache |-> EmptyCache, tried |-> user.tried]
     ELSE IF ~HasMailMembership(userKeyMaterial)
       THEN [ok |-> TRUE, cache |-> cache1, tried |-> user.tried]
     ELSE IF ~mail.ok THEN [ok |-> FALSE, cache |-> EmptyCache, tried |-> user.tried \o mail.tried]
     ELSE [ok |-> TRUE,
           cache |-> [cache1 EXCEPT ![mailMembership.group] =
                        Entry(mailMembership.groupKeyVersion,
                              MapSet(EmptyMap, mailMembership.groupKeyVersion, mail.key))],
           tried |-> user.tried \o mail.tried]

getGroupKeyBug(c, groupId, keyVersion) ==
  IF groupId \notin DOMAIN c \/ ~c[groupId].present THEN NoKey
  ELSE IF MapHas(c[groupId].keys, keyVersion) THEN MapGet(c[groupId].keys, keyVersion)
  ELSE MapGet(c[groupId].keys, c[groupId].currentVersion)
getGroupKey(c, groupId, keyVersion) ==
  IF groupId \notin DOMAIN c \/ ~c[groupId].present THEN NoKey
  ELSE MapGet(c[groupId].keys, keyVersion)

addGroupKey(c, groupId, keyVersion, key) ==
  LET entry == IF c[groupId].present THEN c[groupId] ELSE Entry(keyVersion, EmptyMap)
  IN [c EXCEPT ![groupId] = [entry EXCEPT !.keys = MapSet(entry.keys, keyVersion, key)]]

getAvailableKeyVersions(c, groupId) ==
  IF ~c[groupId].present THEN <<>> ELSE MapKeys(c[groupId].keys)

(***************************************************************************)
(* unwrapSingleElementArray and toUint8Array (utils/bytes.ts).             *)
(* A JSON array is modelled by its length and its first element.           *)
(***************************************************************************)
Scalar(t, s) == [t |-> t, s |-> s, len |-> 0, first |-> [t |-> "undefined", s |-> ""]]
ArrayOf(len, first) == [t |-> "array", s |-> "", len |-> len, first |-> first]
Elem(t, s) == [t |-> t, s |-> s]

\* value[0] of an array, else the value itself, as an element
FirstOf(value) == IF value.t = "array" THEN value.first ELSE Elem(value.t, value.s)

unwrapSingleElementArrayBug(value) ==
  IF value.t \in {"undefined", "null"} THEN Elem("null", "")
  ELSE IF value.t = "array" /\ value.len >= 1 THEN value.first
  ELSE value
unwrapSingleElementArray(value) ==
  IF value.t \in {"undefined", "null"} THEN Elem("null", "")
  ELSE IF value.t = "array" /\ value.len = 1 THEN value.first
  ELSE value

\* toUint8Array(value): the bytes of a Uint8Array, of a base64 text or of an
\* array of numbers; empty bytes for null and for anything else.
toUint8Array(value) ==
  IF IsNullish(value) THEN EmptyBytes
  ELSE IF value.t = "Uint8Array" THEN value.blob
  ELSE IF value.t = "string" THEN (IF value = Str("") THEN EmptyBytes ELSE value.blob)
  ELSE IF value.t = "array" THEN value.blob
  ELSE EmptyBytes

\* base64ToUint8Array(text) of a text it accepts
base64ToUint8Array(value) == IF value = Str("") THEN EmptyBytes ELSE value.blob

(***************************************************************************)
(* stringToCustomId (crypto/formerGroupKey.ts):                            *)
(* base64ToBase64Url(uint8ArrayToBase64(stringToUtf8Uint8Array(s))).       *)
(***************************************************************************)
Base64Chars ==
  <<"A", "B", "C", "D", "E", "F", "G", "H", "I", "J", "K", "L", "M", "N", "O", "P",
    "Q", "R", "S", "T", "U", "V", "W", "X", "Y", "Z", "a", "b", "c", "d", "e", "f",
    "g", "h", "i", "j", "k", "l", "m", "n", "o", "p", "q", "r", "s", "t", "u", "v",
    "w", "x", "y", "z", "0", "1", "2", "3", "4", "5", "6", "7", "8", "9", "+", "/">>

\* the UTF-8 bytes of a decimal text
stringToUtf8Uint8Array(n) == [i \in 1..Len(DigitsOf(n)) |-> 48 + DigitsOf(n)[i]]

RECURSIVE uint8ArrayToBase64(_)
uint8ArrayToBase64(bytes) ==
  LET c(i) == Base64Chars[i + 1]
  IN IF Len(bytes) = 0 THEN <<>>
     ELSE IF Len(bytes) = 1
       THEN <<c(bytes[1] \div 4), c((bytes[1] % 4) * 16), "=", "=">>
     ELSE IF Len(bytes) = 2
       THEN <<c(bytes[1] \div 4), c((bytes[1] % 4) * 16 + bytes[2] \div 16),
              c((bytes[2] % 16) * 4), "=">>
     ELSE <<c(bytes[1] \div 4), c((bytes[1] % 4) * 16 + bytes[2] \div 16),
            c((bytes[2] % 16) * 4 + bytes[3] \div 64), c(bytes[3] % 64)>>
          \o uint8ArrayToBase64(SubSeq(bytes, 4, Len(bytes)))

base64ToBase64Url(chars) ==
  LET swap == [i \in 1..Len(chars) |->
                 IF chars[i] = "+" THEN "-" ELSE IF chars[i] = "/" THEN "_" ELSE chars[i]]
  IN SelectSeq(swap, LAMBDA ch : ch # "=")

\* stringToCustomId(String(n))
stringToCustomId(n) == Join(base64ToBase64Url(uint8ArrayToBase64(stringToUtf8Uint8Array(n))))

(***************************************************************************)
(* resolveSessionKey (crypto/decryptInstance.ts).  The outcome lists the   *)
(* getGroupKey lookups made, the unwrap methods attempted in order (each   *)
(* is also an onSessionKeyAttempt callback) and the onSessionKeyResolved   *)
(* callbacks; threw is set when base64ToUint8Array rejected the text.      *)
(***************************************************************************)
NoVersion == "(none)"

\* String(v)
JsString(v) ==
  IF v.t = "string" THEN v.s
  ELSE IF v.t = "number" THEN (IF v = NaN THEN "NaN" ELSE String(v.n))
  ELSE IF v.t = "null" THEN "null"
  ELSE IF v.t = "undefined" THEN "undefined"
  ELSE "[object]"

Outcome(result, lookups, attempts, resolved, threw) ==
  [result |-> result, lookups |-> lookups, attempts |-> attempts,
   resolved |-> resolved, threw |-> threw]

\* The ladder of unwrap attempts: each rung is a method name and whether the
\* library call succeeds; the ladder stops at the first success.
LadderBug(groupKey, encKey) ==
  LET r128 == [method |-> "128", ok |-> decryptKeyOk(Key128(groupKey), encKey)]
      rLegacy == [method |-> "256-legacy", ok |-> decryptKeyUnauthenticatedOk(groupKey, encKey)]
      r256 == [method |-> "256", ok |-> decryptKeyOk(groupKey, encKey)]
  IN <<rLegacy, r256, r128>>
Ladder(groupKey, encKey) ==
  LET r128 == [method |-> "128", ok |-> decryptKeyOk(Key128(groupKey), encKey)]
      rLegacy == [method |-> "256-legacy", ok |-> decryptKeyUnauthenticatedOk(groupKey, encKey)]
      r256 == [method |-> "256", ok |-> decryptKeyOk(groupKey, encKey)]
  IN IF groupKey.len = KEY_LENGTH_128 THEN <<r128, rLegacy, r256>> ELSE <<rLegacy, r256, r128>>

UnwrapBug(groupKey, encKey, lookups) ==
  LET rungs == Ladder(groupKey, encKey)
      hit == {i \in 1..Len(rungs) : rungs[i].ok}
      first == CHOOSE i \in hit : \A j \in hit : i <= j
  IN IF hit = {}
     THEN Outcome(NoKey, lookups, rungs, <<"null">>, FALSE)
     ELSE Outcome(encKey.out, lookups, rungs, <<rungs[first].method>>, FALSE)
Unwrap(groupKey, encKey, lookups) ==
  LET rungs == Ladder(groupKey, encKey)
      hit == {i \in 1..Len(rungs) : rungs[i].ok}
      first == CHOOSE i \in hit : \A j \in hit : i <= j
  IN IF hit = {}
     THEN Outcome(NoKey, lookups, rungs, <<"null">>, FALSE)
     ELSE Outcome(encKey.out, lookups, SubSeq(rungs, 1, first), <<rungs[first].method>>, FALSE)

ResolveEncrypted(c, instance, typeModel, tryKeyVersion) ==
  LET attrs == getOwnerAttrs(typeModel)
      ownerGroup == Get(instance, attrs.ownerGroup)
      ownerEncSessionKey == Get(instance, attrs.ownerEncSessionKey)
      ownerKeyVersion == Get(instance, attrs.ownerKeyVersion)
      groupId == JsString(ownerGroup)
      keyVersion == IF tryKeyVersion # NoVersion THEN tryKeyVersion
                    ELSE IF IsNullish(ownerKeyVersion) THEN "" ELSE JsString(ownerKeyVersion)
      groupKey == getGroupKey(c, groupId, keyVersion)
      lookups == <<[groupId |-> groupId, keyVersion |-> keyVersion]>>
  IN IF IsNullish(ownerGroup) \/ IsNullish(ownerEncSessionKey)
     THEN Outcome(NoKey, <<>>, <<>>, <<>>, FALSE)
     ELSE IF groupKey = NoKey THEN Outcome(NoKey, lookups, <<>>, <<>>, FALSE)
     ELSE IF ownerEncSessionKey.t = "Uint8Array"
       THEN Unwrap(groupKey, ownerEncSessionKey.blob, lookups)
     ELSE IF ownerEncSessionKey.t = "string" /\ ownerEncSessionKey # InvalidBase64
       THEN Unwrap(groupKey, base64ToUint8Array(ownerEncSessionKey), lookups)
     ELSE Outcome(NoKey, lookups, <<>>, <<>>, TRUE)

resolveSessionKeyBug(c, instance, typeModel, tryKeyVersion) ==
  ResolveEncrypted(c, instance, typeModel, tryKeyVersion)
resolveSessionKey(c, instance, typeModel, tryKeyVersion) ==
  IF ~typeModel.encrypted THEN Outcome(NoKey, <<>>, <<>>, <<>>, FALSE)
  ELSE ResolveEncrypted(c, instance, typeModel, tryKeyVersion)

(***************************************************************************)
(* loadFormerGroupKey (crypto/formerGroupKey.ts), cut at its two awaits.   *)
(* A frame holds the position of the call, its arguments, currentKey, the  *)
(* value returned, the number of decryptKey calls that succeeded in the    *)
(* loop and the Group response it was given.  Each part returns the frame  *)
(* reached and the HTTP requests issued so far.                            *)
(***************************************************************************)
GROUP_ATTR_FORMER_GROUP_KEYS == "2273"
GROUP_KEYS_REF_LIST == "2269"
GROUP_KEY_ATTR_OWNER_ENC_GKEY == "2261"

\* parseKeyVersion(s) throws unless Number(s) is a non-negative integer
ParsesAsKeyVersionBug(s) == TRUE
ParsesAsKeyVersion(s) == Number(s) # NumberNaN /\ Number(s) >= 0
parseKeyVersion(s) == Number(s)

\* a Group response: the value of attribute 2273 and, inside the aggregate
\* it holds, the value of attribute 2269
GroupRaw(formerRef, listAttr) == [formerRef |-> formerRef, listAttr |-> listAttr]
NoGroupRaw == GroupRaw(Scalar("undefined", ""), Scalar("undefined", ""))

Frame(pc, groupId, currentKeyVersion, targetKeyVersion, currentKey, ret) ==
  [pc |-> pc, groupId |-> groupId, currentKeyVersion |-> currentKeyVersion,
   targetKeyVersion |-> targetKeyVersion, currentKey |-> currentKey, ret |-> ret,
   links |-> 0, linkFailed |-> FALSE, groupRaw |-> NoGroupRaw]

LoadEntityRequest(typeModel, id) ==
  [op |-> "loadEntity", typeModel |-> typeModel.name, id |-> id,
   start |-> "", count |-> 0, reverse |-> FALSE]
LoadRangeRequest(typeModel, listId, start, count, reverse) ==
  [op |-> "loadRange", typeModel |-> typeModel.name, id |-> listId,
   start |-> start, count |-> count, reverse |-> reverse]

\* lines 56-63: up to the await of loadEntity
loadFormerGroupKeyBug(c, groupId, currentKeyVersion, targetKeyVersion) ==
  LET currentVer == parseKeyVersion(currentKeyVersion)
      targetVer == parseKeyVersion(targetKeyVersion)
      currentKey == getGroupKey(c, groupId, currentKeyVersion)
      F(pc, key, ret) == Frame(pc, groupId, currentKeyVersion, targetKeyVersion, key, ret)
  IN IF ~ParsesAsKeyVersion(currentKeyVersion) \/ ~ParsesAsKeyVersion(targetKeyVersion)
     THEN [frame |-> F("threw", NoKey, NoKey), http |-> <<>>]
     ELSE IF currentVer < targetVer
       THEN [frame |-> F("returned", NoKey, getGroupKey(c, groupId, targetKeyVersion)),
             http |-> <<>>]
     ELSE IF currentKey = NoKey
       THEN [frame |-> F("returned", NoKey, NoKey), http |-> <<>>]
     ELSE [frame |-> F("awaitGroup", currentKey, NoKey),
           http |-> <<LoadEntityRequest(GROUP, groupId)>>]
loadFormerGroupKey(c, groupId, currentKeyVersion, targetKeyVersion) ==
  LET currentVer == parseKeyVersion(currentKeyVersion)
      targetVer == parseKeyVersion(targetKeyVersion)
      currentKey == getGroupKey(c, groupId, currentKeyVersion)
      F(pc, key, ret) == Frame(pc, groupId, currentKeyVersion, targetKeyVersion, key, ret)
  IN IF ~ParsesAsKeyVersion(currentKeyVersion) \/ ~ParsesAsKeyVersion(targetKeyVersion)
     THEN [frame |-> F("threw", NoKey, NoKey), http |-> <<>>]
     ELSE IF currentVer <= targetVer
       THEN [frame |-> F("returned", NoKey, getGroupKey(c, groupId, targetKeyVersion)),
             http |-> <<>>]
     ELSE IF currentKey = NoKey
       THEN [frame |-> F("returned", NoKey, NoKey), http |-> <<>>]
     ELSE [frame |-> F("awaitGroup", currentKey, NoKey),
           http |-> <<LoadEntityRequest(GROUP, groupId)>>]

\* lines 66-81: from the Group response up to the await of loadRange
AfterLoadEntityBug(frame, requests, groupRaw) ==
  LET formerRef == groupRaw.formerRef
      refList == unwrapSingleElementArray(formerRef)
      listId == FirstOf(groupRaw.listAttr)
      currentVer == parseKeyVersion(frame.currentKeyVersion)
      targetVer == parseKeyVersion(frame.targetKeyVersion)
      got == [frame EXCEPT !.groupRaw = groupRaw]
      ReturnNull == [frame |-> [got EXCEPT !.pc = "returned", !.ret = NoKey], http |-> requests]
  IN IF formerRef.t \in {"undefined", "null"} THEN ReturnNull
     ELSE IF refList.t # "object" THEN ReturnNull
     ELSE IF listId.t # "string" THEN ReturnNull
     ELSE [frame |-> [got EXCEPT !.pc = "awaitRange"],
           http |-> Append(requests,
                      LoadRangeRequest(GROUP_KEY, listId.s, stringToCustomId(targetVer),
                                       currentVer - targetVer, TRUE))]
AfterLoadEntity(frame, requests, groupRaw) ==
  LET formerRef == groupRaw.formerRef
      refList == unwrapSingleElementArray(formerRef)
      listId == FirstOf(groupRaw.listAttr)
      currentVer == parseKeyVersion(frame.currentKeyVersion)
      targetVer == parseKeyVersion(frame.targetKeyVersion)
      got == [frame EXCEPT !.groupRaw = groupRaw]
      ReturnNull == [frame |-> [got EXCEPT !.pc = "returned", !.ret = NoKey], http |-> requests]
  IN IF formerRef.t \in {"undefined", "null"} THEN ReturnNull
     ELSE IF refList.t # "object" THEN ReturnNull
     ELSE IF listId.t # "string" THEN ReturnNull
     ELSE [frame |-> [got EXCEPT !.pc = "awaitRange"],
           http |-> Append(requests,
                      LoadRangeRequest(GROUP_KEY, listId.s, stringToCustomId(currentVer),
                                       currentVer - targetVer, TRUE))]

\* lines 83-93: the loop over the links; each link is given by the value of
\* its attribute 2261 (Undefined when the link has none)
\* failed is set when a decryptKey of the loop threw
RECURSIVE WalkLinksBug(_, _, _)
WalkLinksBug(currentKey, formerKeysRaw, links) ==
  IF formerKeysRaw = <<>> THEN [ret |-> currentKey, links |-> links, failed |-> FALSE]
  ELSE LET ownerEncGKey == Head(formerKeysRaw)
           encBytes == toUint8Array(ownerEncGKey)
       IN IF IsNullish(ownerEncGKey) \/ encBytes = EmptyBytes
          THEN WalkLinksBug(currentKey, Tail(formerKeysRaw), links)
          ELSE IF decryptKeyOk(currentKey, encBytes)
            THEN WalkLinksBug(encBytes.out, Tail(formerKeysRaw), links + 1)
          ELSE [ret |-> currentKey, links |-> links, failed |-> TRUE]
RECURSIVE WalkLinks(_, _, _)
WalkLinks(currentKey, formerKeysRaw, links) ==
  IF formerKeysRaw = <<>> THEN [ret |-> currentKey, links |-> links, failed |-> FALSE]
  ELSE LET ownerEncGKey == Head(formerKeysRaw)
           encBytes == toUint8Array(ownerEncGKey)
       IN IF IsNullish(ownerEncGKey) \/ encBytes = EmptyBytes
          THEN WalkLinks(currentKey, Tail(formerKeysRaw), links)
          ELSE IF decryptKeyOk(currentKey, encBytes)
            THEN WalkLinks(encBytes.out, Tail(formerKeysRaw), links + 1)
          ELSE [ret |-> NoKey, links |-> links, failed |-> TRUE]

\* lines 83-95: from the range response to the return
AfterLoadRange(frame, formerKeysRaw) ==
  LET r == WalkLinks(frame.currentKey, formerKeysRaw, 0)
  IN [frame EXCEPT !.pc = "returned", !.currentKey = r.ret, !.ret = r.ret, !.links = r.links,
                   !.linkFailed = r.failed]

\* cli.ts 321-322 and 547-548: the caller stores a non-null result
TakeFormerKeyBug(c, mailGroupId, keyVersion, formerKey) == c
TakeFormerKey(c, mailGroupId, keyVersion, formerKey) ==
  IF formerKey # NoKey THEN addGroupKey(c, mailGroupId, keyVersion, formerKey) ELSE c

(***************************************************************************)
(* The per-instance key-version retry loop of folders list (cli.ts         *)
(* 359-393) and mails list (cli.ts 562-576), on one MailSet.               *)
(***************************************************************************)
MAIL_SET_NAME == "435"
MAIL_SET_COLOR == "1479"

\* String(safe["1399"] ?? "")
instanceVersion(safe) ==
  LET v == Get(safe, MAIL_SET_ATTR_OWNER_KEY_VERSION)
  IN IF IsNullish(v) THEN "" ELSE JsString(v)

versionsToTry(safe, availableVersions) ==
  IF Len(availableVersions) <= 1 THEN <<instanceVersion(safe)>>
  ELSE <<instanceVersion(safe)>>
       \o SelectSeq(availableVersions, LAMBDA v : v # instanceVersion(safe))

\* the loop state: dec (set = FALSE while it is null), the versions tried so
\* far, the version that decrypted name and color, whether a call threw
NoDec == [set |-> FALSE, result |-> EmptyInstance, failed |-> {}, sk |-> NoKey]
RetryState(dec, tried, triedVersion, threw) ==
  [dec |-> dec, tried |-> tried, triedVersion |-> triedVersion, threw |-> threw]

\* failedValueIds.has("435") || failedValueIds.has("1479")
hadRelevantFailureBug(failedValueIds) == MAIL_SET_NAME \in failedValueIds
hadRelevantFailure(failedValueIds) ==
  MAIL_SET_NAME \in failedValueIds \/ MAIL_SET_COLOR \in failedValueIds

\* the for loop over versionsToTry, from position i
RECURSIVE RetryFrom(_, _, _, _, _)
RetryFrom(c, safe, versions, i, st) ==
  IF i > Len(versions) THEN st
  ELSE LET tryVer == versions[i]
           r == resolveSessionKey(c, safe, MAIL_SET, tryVer)
           sk == r.result
           out == decryptParsedInstance(MAIL_SET, safe, sk)
           dec == [set |-> TRUE, result |-> out.result, failed |-> out.failed, sk |-> sk]
           tried == Append(st.tried, tryVer)
       IN IF r.threw THEN RetryState(st.dec, tried, NoVersion, TRUE)
          ELSE IF sk = NoKey
            THEN RetryFrom(c, safe, versions, i + 1, RetryState(st.dec, tried, NoVersion, FALSE))
          ELSE IF ~hadRelevantFailure(out.failed) THEN RetryState(dec, tried, tryVer, FALSE)
          ELSE RetryFrom(c, safe, versions, i + 1, RetryState(dec, tried, NoVersion, FALSE))

\* the loop and the null-key decryption after it; dec is the instance the
\* callback goes on with
RetryLoop(c, safe, availableVersions) ==
  LET versions == versionsToTry(safe, availableVersions)
      st == RetryFrom(c, safe, versions, 1, RetryState(NoDec, <<>>, NoVersion, FALSE))
  IN [versionsToTry |-> versions, tried |-> st.tried, triedVersion |-> st.triedVersion,
      threw |-> st.threw, sk |-> st.dec.sk,
      dec |-> IF st.dec.set THEN st.dec.result
              ELSE decryptParsedInstance(MAIL_SET, safe, NoKey).result]

(***************************************************************************)
(* mapWithConcurrency (cli.ts 55-73).  The frame holds items, index,       *)
(* results (Unset where nothing was stored), for each worker the position  *)
(* of the item whose fn it awaits (0 once its loop has ended), and as      *)
(* history the positions in the order fn was started on them and in the    *)
(* order the fn promises settled.                                          *)
(***************************************************************************)
FOLDER_LIST_CONCURRENCY == 5
Unset == [item |-> "", index |-> 0 - 1]
\* the value fn(item, index) resolves to
FnResult(item, index) == [item |-> item, index |-> index]

\* Math.min(concurrency, items.length)
WorkerCountBug(concurrency, length) == length
WorkerCount(concurrency, length) == IF concurrency < length THEN concurrency ELSE length

\* results[i] = value, i counted from 0
StoreResultBug(results, i, value) ==
  LET free == {j \in 1..Len(results) : results[j] = Unset}
  IN [results EXCEPT ![CHOOSE j \in free : \A x \in free : j <= x] = value]
StoreResult(results, i, value) == [results EXCEPT ![i + 1] = value]

\* lines 66-68 for worker k: const i = index++; if (i >= items.length) break;
\* then fn(items[i], i) is called and awaited
TakeNextBug(frame, k) ==
  LET i == frame.index
      taken == [frame EXCEPT !.index = i + 2]
  IN IF i >= Len(frame.items) THEN [taken EXCEPT !.at[k] = 0]
     ELSE [taken EXCEPT !.at[k] = i + 1, !.started = Append(@, i + 1)]
TakeNext(frame, k) ==
  LET i == frame.index
      taken == [frame EXCEPT !.index = i + 1]
  IN IF i >= Len(frame.items) THEN [taken EXCEPT !.at[k] = 0]
     ELSE [taken EXCEPT !.at[k] = i + 1, !.started = Append(@, i + 1)]

\* Array.from({length}, async () => ...): the workers run, one after the
\* other, up to their first await
RECURSIVE StartWorkers(_, _)
StartWorkers(frame, k) ==
  IF k > Len(frame.at) THEN frame ELSE StartWorkers(TakeNext(frame, k), k + 1)

\* the promise of mapWithConcurrency: pending, resolved or rejected
Settled(frame) ==
  [frame EXCEPT !.pc = IF frame.rejected THEN "rejected"
                       ELSE IF \A k \in 1..Len(frame.at) : frame.at[k] = 0 THEN "resolved"
                       ELSE "running"]

mapWithConcurrency(items, concurrency) ==
  Settled(StartWorkers(
    [pc |-> "running", items |-> items, concurrency |-> concurrency, index |-> 0,
     results |-> [i \in 1..Len(items) |-> Unset],
     at |-> [k \in 1..WorkerCount(concurrency, Len(items)) |-> 0],
     started |-> <<>>, order |-> <<>>, rejected |-> FALSE], 1))

\* the fn awaited by worker k resolves: line 68 and the next turn of the loop
FnResolved(frame, k) ==
  LET i == frame.at[k] - 1
      stored == [frame EXCEPT !.results = StoreResult(@, i, FnResult(frame.items[i + 1], i)),
                              !.order = Append(@, i + 1)]
  IN Settled(TakeNext(stored, k))

\* the fn awaited by worker k rejects: the worker ends, Promise.all rejects
FnRejected(frame, k) ==
  Settled([frame EXCEPT !.at[k] = 0, !.order = Append(@, frame.at[k]), !.rejected = TRUE])

(***************************************************************************)
(* State.                                                                  *)
(*   kc     "none" before unlock, "ready" once createKeyChain returned,    *)
(*          "threw" when it threw                                          *)
(*   cache  the Map<groupId, GroupKeyEntry> closed over by the key chain   *)
(*   hist   history: what unlock was given (without the key blobs), the    *)
(*          cache unlock returned, the addGroupKey calls made since and    *)
(*          the former-key walks whose result was stored and those that    *)
(*          a failed link decryption ended                                 *)
(*   dec    the decryptParsedInstance call under test and its outcome      *)
(*   rs     the resolveSessionKey call under test and its outcome          *)
(*   w      the frame of loadFormerGroupKey: its position, arguments,      *)
(*          currentKey and return value                                    *)
(*   http   the HTTP requests loadFormerGroupKey issued in this call       *)
(*   cli    the position of folders list / mails list                      *)
(*   rt     the per-instance key-version retry loop under test and its     *)
(*          outcome                                                        *)
(*   mc     the frame of mapWithConcurrency: items, index, results and     *)
(*          what each worker is awaiting                                   *)
(*   cmd    the command as a sequence of authenticated requests: its       *)
(*          position, the persisted session and the requests made          *)
(***************************************************************************)
VARIABLES kc, cache, hist, dec, rs, w, http, cli, rt, mc, cmd, ss, pf

vars == <<kc, cache, hist, dec, rs, w, http, cli, rt, mc, cmd, ss, pf>>

(***************************************************************************)
(* Inputs of unlock: the passphrase key and the parsed user key material.  *)
(* createKeyChain reads the key blob and version of the user group and of  *)
(* the first Mail membership only; the other memberships of a list carry a *)
(* fixed blob and version.                                                 *)
(***************************************************************************)
MaterialBlobs == {Wrap(wk, out) : wk \in Keys, out \in Keys} \cup {Garbage}
UserGroupMaterials ==
  [symEncGKey : MaterialBlobs, groupKeyVersion : Versions, group : Groups]
MailMemberships ==
  [symEncGKey : MaterialBlobs, groupKeyVersion : Versions, group : Groups,
   groupType : {GROUP_TYPE_MAIL}]
OtherMemberships ==
  [symEncGKey : {Garbage}, groupKeyVersion : {"0"}, group : {"mg"},
   groupType : {GROUP_TYPE_MAIL, "4"}]
MembershipLists ==
  {<<>>} \cup {<<m>> : m \in MailMemberships \cup OtherMemberships}
  \cup {<<m, o>> : m \in MailMemberships, o \in OtherMemberships}
  \cup {<<o, m>> : o \in {x \in OtherMemberships : x.groupType # GROUP_TYPE_MAIL},
                   m \in MailMemberships}
KeyMaterials == [userGroup : UserGroupMaterials, memberships : MembershipLists]

\* the keys handed to addGroupKey: one of each length
AddKeys == {[id |-> "a", len |-> KEY_LENGTH_128], [id |-> "b", len |-> KEY_LENGTH_256]}

\* The key material of an account as the server keeps it: the user group
\* "ug" and one Mail membership of the group "mg".
AccountPassphraseKey == [id |-> "a", len |-> KEY_LENGTH_256]
AccountKeyMaterials ==
  [userGroup : [symEncGKey : {Wrap(AccountPassphraseKey, AccountPassphraseKey)},
                groupKeyVersion : {"0"}, group : {"ug"}],
   memberships : {<<m>> : m \in {x \in MailMemberships :
                                   x.group = "mg" /\ x.symEncGKey.out \in AddKeys \cup {NoKey}}}]

NoMaterial == [userGroup |-> [group |-> "", groupKeyVersion |-> ""], memberships |-> <<>>]
Summary(material) ==
  [userGroup |-> [group |-> material.userGroup.group,
                  groupKeyVersion |-> material.userGroup.groupKeyVersion],
   memberships |-> [i \in 1..Len(material.memberships) |->
                      [group |-> material.memberships[i].group,
                       groupType |-> material.memberships[i].groupType,
                       groupKeyVersion |-> material.memberships[i].groupKeyVersion]]]

NoHist ==
  [material |-> NoMaterial, unlocked |-> EmptyCache, adds |-> <<>>, walks |-> <<>>,
   failed |-> <<>>]
DecIdle == [pc |-> "idle"]
RsIdle == [pc |-> "idle"]
WIdle == [pc |-> "idle"]
CliIdle == [pc |-> "idle"]
RtIdle == [pc |-> "idle"]
McIdle == [pc |-> "idle"]
CmdIdle == [pc |-> "idle"]
SsIdle == [pc |-> "idle"]
PfIdle == [pc |-> "idle"]

Fresh ==
  /\ kc = "none"
  /\ cache = EmptyCache
  /\ hist = NoHist
  /\ dec = DecIdle
  /\ rs = RsIdle
  /\ w = WIdle
  /\ http = <<>>
  /\ cli = CliIdle
  /\ rt = RtIdle
  /\ mc = McIdle
  /\ cmd = CmdIdle
  /\ ss = SsIdle
  /\ pf = PfIdle

\* createKeyChain on one of the given inputs
Unlock(passphraseKeys, materials) ==
  /\ kc = "none"
  /\ \E userPassphraseKey \in passphraseKeys, userKeyMaterial \in materials :
       LET r == createKeyChain(userPassphraseKey, userKeyMaterial)
       IN /\ kc' = IF r.ok THEN "ready" ELSE "threw"
          /\ cache' = r.cache
          /\ hist' = [hist EXCEPT !.material = Summary(userKeyMaterial),
                                  !.unlocked = r.cache]

(***************************************************************************)
(* The key chain as an object: unlock, then any addGroupKey calls.         *)
(***************************************************************************)
\* unlockUserGroupKey(userPassphraseKey, userKeyMaterial)
unlockUserGroupKey ==
  /\ Unlock(Keys, KeyMaterials)
  /\ UNCHANGED <<dec, rs, w, http, cli, rt, mc, cmd, ss, pf>>

\* keyChain.addGroupKey(groupId, keyVersion, key), by any caller
AddGroupKeyCall ==
  /\ kc = "ready"
  /\ Len(hist.adds) < MaxAdds
  /\ \E groupId \in Groups, keyVersion \in Versions, key \in AddKeys :
       /\ cache' = addGroupKey(cache, groupId, keyVersion, key)
       /\ hist' = [hist EXCEPT !.adds = Append(@, [groupId |-> groupId,
                                                 keyVersion |-> keyVersion, key |-> key])]
  /\ UNCHANGED <<kc, dec, rs, w, http, cli, rt, mc, cmd, ss, pf>>

KcNext == unlockUserGroupKey \/ AddGroupKeyCall

SpecKeyChain == Fresh /\ [][KcNext]_vars

(***************************************************************************)
(* decryptParsedInstance as a function of its inputs: a type model, a wire *)
(* instance built attribute by attribute, and a session key or null.       *)
(***************************************************************************)
\* MAIL is left to ALL_TYPES, which has an attribute of each of its value types
DecTypeModels == {MAILBOX_GROUP_ROOT, MAIL_BOX, MAIL_SET, ALL_TYPES}
DecSessionKeys == {NoKey, [id |-> "a", len |-> KEY_LENGTH_256], [id |-> "a", len |-> KEY_LENGTH_128]}
\* wire keys outside every value table: association ids such as 443 (mailSets)
ExtraWireKeys == {"443", "999"}
WireValues ==
  {Null, Str(""), Str("folder-id"), Num(0), Aggregate("ref"),
   Cipher([id |-> "a", len |-> KEY_LENGTH_256], "abc"),
   Cipher([id |-> "a", len |-> KEY_LENGTH_128], "0"),
   Cipher([id |-> "b", len |-> KEY_LENGTH_256], "1")}
NoOut == [result |-> EmptyInstance, failed |-> {}, fallback |-> {}]

DecInit ==
  /\ kc = "none"
  /\ cache = EmptyCache
  /\ hist = NoHist
  /\ dec \in [pc : {"build"}, typeModel : DecTypeModels, sessionKey : DecSessionKeys,
              instance : {EmptyInstance}, out : {NoOut}, run : {NoRun}]
  /\ rs = RsIdle
  /\ w = WIdle
  /\ http = <<>>
  /\ cli = CliIdle
  /\ rt = RtIdle
  /\ mc = McIdle
  /\ cmd = CmdIdle
  /\ ss = SsIdle
  /\ pf = PfIdle

\* the server's response gains one more attribute
SetWireAttr ==
  /\ dec.pc = "build"
  /\ Cardinality(DOMAIN dec.instance) < MaxWireAttrs
  /\ \E k \in (DOMAIN dec.typeModel.values \cup ExtraWireKeys) \ DOMAIN dec.instance,
        v \in WireValues :
       dec' = [dec EXCEPT !.instance = (k :> v) @@ dec.instance]
  /\ UNCHANGED <<kc, cache, hist, rs, w, http, cli, rt, mc, cmd, ss, pf>>

\* decryptParsedInstance(typeModel, instance, sessionKey)
DecryptCall ==
  /\ dec.pc = "build"
  /\ dec' = [dec EXCEPT !.pc = "done",
                        !.out = decryptParsedInstance(dec.typeModel, dec.instance, dec.sessionKey),
                        !.run = decryptParsedInstanceRun(dec.typeModel, dec.instance,
                                                         dec.sessionKey)]
  /\ UNCHANGED <<kc, cache, hist, rs, w, http, cli, rt, mc, cmd, ss, pf>>

DecNext == SetWireAttr \/ DecryptCall

SpecDecrypt == DecInit /\ [][DecNext]_vars

(***************************************************************************)
(* resolveSessionKey on the key chain of an account, for any instance.     *)
(***************************************************************************)
RsTypeModels == {MAILBOX_GROUP_ROOT, MAIL_BOX, MAIL_SET, MAIL}
SessionKeyBlobs ==
  {[wk |-> wk, out |-> [id |-> "b", len |-> KEY_LENGTH_256], ok |-> ok] :
     wk \in Keys, ok \in {{"auth"}, {"legacy"}, {"auth", "legacy"}}} \cup {Garbage}
OwnerGroupValues == {Undefined, Null, Str("ug"), Str("mg"), Str("zz")}
OwnerEncSessionKeyValues ==
  {Undefined, Null, InvalidBase64} \cup {BytesOf(b) : b \in SessionKeyBlobs}
  \cup {Base64Of(b) : b \in SessionKeyBlobs}
OwnerKeyVersionValues ==
  {Undefined} \cup {Str(v) : v \in Versions} \cup {Num(n) : n \in 0..MaxVer}

\* the instance that carries the three owner attributes of the type
OwnerInstance(typeModel, g, e, v) ==
  LET attrs == getOwnerAttrs(typeModel)
      all == (attrs.ownerGroup :> g) @@ (attrs.ownerEncSessionKey :> e)
             @@ (attrs.ownerKeyVersion :> v)
  IN [k \in {x \in DOMAIN all : all[x] # Undefined} |-> all[k]]

AccountUnlock ==
  /\ Unlock({AccountPassphraseKey}, AccountKeyMaterials)
  /\ UNCHANGED <<dec, rs, w, http, cli, rt, mc, cmd, ss, pf>>

\* resolveSessionKey(keyChain, instance, typeModel, ..., tryKeyVersion)
ResolveCall ==
  /\ kc = "ready"
  /\ rs.pc = "idle"
  /\ \E typeModel \in RsTypeModels, g \in OwnerGroupValues, e \in OwnerEncSessionKeyValues,
        v \in OwnerKeyVersionValues, tryKeyVersion \in {NoVersion} \cup Versions :
       LET instance == OwnerInstance(typeModel, g, e, v)
       IN rs' = [pc |-> "done", typeModel |-> typeModel, instance |-> instance,
                 tryKeyVersion |-> tryKeyVersion,
                 out |-> resolveSessionKey(cache, instance, typeModel, tryKeyVersion)]
  /\ UNCHANGED <<kc, cache, hist, dec, w, http, cli, rt, mc, cmd, ss, pf>>

RsNext == AccountUnlock \/ ResolveCall

SpecResolve == Fresh /\ [][RsNext]_vars

(***************************************************************************)
(* loadFormerGroupKey called on the key chain of an account with any group *)
(* id and any two version texts; the server answers the Group load and the *)
(* range query with any response, or the request fails.                    *)
(***************************************************************************)
FormerRefShapes ==
  {Scalar("undefined", ""), Scalar("null", ""), Scalar("object", ""), Scalar("string", "ref"),
   ArrayOf(0, Elem("undefined", "")), ArrayOf(1, Elem("object", "")),
   ArrayOf(1, Elem("string", "ref")), ArrayOf(2, Elem("object", ""))}
ListAttrShapes ==
  {Scalar("string", "L1"), Scalar("null", ""), Scalar("number", ""),
   ArrayOf(1, Elem("string", "L2")), ArrayOf(0, Elem("undefined", "")),
   ArrayOf(1, Elem("number", ""))}
GroupResponses == [formerRef : FormerRefShapes, listAttr : ListAttrShapes]

LinkBlobs == {Wrap(wk, out) : wk \in AddKeys, out \in AddKeys}
LinkValues ==
  {Undefined, Null, Str(""), Num(0), BytesOf(Garbage)}
  \cup {BytesOf(b) : b \in LinkBlobs}
  \cup {Base64Of(Wrap([id |-> "b", len |-> KEY_LENGTH_256], [id |-> "a", len |-> KEY_LENGTH_128])),
        NumArrayOf(Wrap([id |-> "a", len |-> KEY_LENGTH_128], [id |-> "b", len |-> KEY_LENGTH_256]))}
RangeResponses == UNION {[1..n -> LinkValues] : n \in 0..MaxLinks}

\* loadFormerGroupKey(..., keyChain, loadEntity, loadRange, groupId,
\* currentKeyVersion, targetKeyVersion), up to its first await or return
WalkerCall ==
  /\ kc = "ready"
  /\ w.pc = "idle"
  /\ \E groupId \in Groups, currentKeyVersion \in VersionTexts, targetKeyVersion \in VersionTexts :
       LET r == loadFormerGroupKey(cache, groupId, currentKeyVersion, targetKeyVersion)
       IN w' = r.frame /\ http' = r.http
  /\ UNCHANGED <<kc, cache, hist, dec, rs, cli, rt, mc, cmd, ss, pf>>

\* loadEntity(GROUP, groupId) resolves
GroupLoaded ==
  /\ w.pc = "awaitGroup"
  /\ \E groupRaw \in GroupResponses :
       LET r == AfterLoadEntity(w, http, groupRaw)
       IN w' = r.frame /\ http' = r.http
  /\ UNCHANGED <<kc, cache, hist, dec, rs, cli, rt, mc, cmd, ss, pf>>

\* loadRange(GROUP_KEY, listId, ...) resolves
RangeLoaded ==
  /\ w.pc = "awaitRange"
  /\ \E formerKeysRaw \in RangeResponses : w' = AfterLoadRange(w, formerKeysRaw)
  /\ UNCHANGED <<kc, cache, hist, dec, rs, http, cli, rt, mc, cmd, ss, pf>>

\* loadEntity or loadRange rejects: loadFormerGroupKey throws
LoadFailed ==
  /\ w.pc \in {"awaitGroup", "awaitRange"}
  /\ w' = [w EXCEPT !.pc = "threw"]
  /\ UNCHANGED <<kc, cache, hist, dec, rs, http, cli, rt, mc, cmd, ss, pf>>

WkNext == AccountUnlock \/ WalkerCall \/ GroupLoaded \/ RangeLoaded \/ LoadFailed

SpecWalker == Fresh /\ [][WkNext]_vars

(***************************************************************************)
(* The pre-pass of folders list and of mails list (cli.ts 301-328 and      *)
(* 528-550): from the MailSet list the server returned, the versions to    *)
(* load, and for each one without a key a call of loadFormerGroupKey whose *)
(* non-null result is stored in the key chain.                             *)
(***************************************************************************)
\* the values of attribute 1399 (_ownerKeyVersion) in the MailSet list
MailSetVersionValues ==
  {Undefined, Num(1)} \cup {Str(v) : v \in Versions \cup {"x"}}
MailSetLists == UNION {[1..n -> MailSetVersionValues] : n \in 0..MaxSets}

\* new Set(...) of a sequence of texts, in insertion order
RECURSIVE SetInOrder(_)
SetInOrder(seq) ==
  IF seq = <<>> THEN <<>>
  ELSE LET front == SetInOrder(SubSeq(seq, 1, Len(seq) - 1))
           last == seq[Len(seq)]
       IN IF \E i \in 1..Len(front) : front[i] = last THEN front ELSE Append(front, last)

keyVersionsNeeded(mailSetRawList, groupKeyVersion) ==
  LET Needed(v) == ~IsNullish(v) /\ JsString(v) # groupKeyVersion
      picked == SelectSeq(mailSetRawList, Needed)
  IN SetInOrder([i \in 1..Len(picked) |-> JsString(picked[i])])

\* the first index from i on whose version has no key yet
RECURSIVE NextNeeded(_, _, _, _)
NextNeeded(c, mailGroupId, needed, i) ==
  IF i > Len(needed) THEN i
  ELSE IF getGroupKey(c, mailGroupId, needed[i]) # NoKey
    THEN NextNeeded(c, mailGroupId, needed, i + 1)
  ELSE i

\* the MailSet list as the fan-out takes it: one item for each MailSet, in
\* list order; what a callback computes from its MailSet is RetryLoop
MailSetItems(mailSetRawList) == [i \in 1..Len(mailSetRawList) |-> "x"]

\* the frame of the command: the MailSet list, the versions to load, the
\* position in them and, once the fan-out has begun, the key chain as the
\* pre-pass left it
CliFrame(pc, items, needed, i, keysAtFanout) ==
  [pc |-> pc, items |-> items, needed |-> needed, i |-> i, keysAtFanout |-> keysAtFanout]

\* the loop from index i up to the next await: that of loadFormerGroupKey, or
\* past the loop's end that of mapWithConcurrency (cli.ts 342 / 554)
PrePassFromBug(c, items, needed, i) ==
  LET mailMembership == getMailMembership(hist.material)
      j == NextNeeded(c, mailMembership.group, needed, i)
      r == loadFormerGroupKey(c, mailMembership.group, mailMembership.groupKeyVersion, needed[j])
  IN IF j > Len(needed)
     THEN /\ cli' = CliFrame("fanout", items, needed, j, c)
          /\ w' = WIdle
          /\ http' = <<>>
          /\ mc' = mapWithConcurrency(items, FOLDER_LIST_CONCURRENCY)
     ELSE /\ cli' = CliFrame("walking", items, needed, j, EmptyCache)
          /\ w' = r.frame
          /\ http' = r.http
          /\ mc' = mapWithConcurrency(items, FOLDER_LIST_CONCURRENCY)
PrePassFrom(c, items, needed, i) ==
  LET mailMembership == getMailMembership(hist.material)
      j == NextNeeded(c, mailMembership.group, needed, i)
      r == loadFormerGroupKey(c, mailMembership.group, mailMembership.groupKeyVersion, needed[j])
  IN IF j > Len(needed)
     THEN /\ cli' = CliFrame("fanout", items, needed, j, c)
          /\ w' = WIdle
          /\ http' = <<>>
          /\ mc' = mapWithConcurrency(items, FOLDER_LIST_CONCURRENCY)
     ELSE /\ cli' = CliFrame("walking", items, needed, j, EmptyCache)
          /\ w' = r.frame
          /\ http' = r.http
          /\ mc' = mc

\* the MailSet range has loaded: lines 301-310 / 528-537
CliMailSetsLoaded ==
  /\ kc = "ready"
  /\ cli.pc = "idle"
  /\ \E mailSetRawList \in MailSetLists :
       PrePassFrom(cache, MailSetItems(mailSetRawList),
                   keyVersionsNeeded(mailSetRawList,
                                     getMailMembership(hist.material).groupKeyVersion), 1)
  /\ UNCHANGED <<kc, cache, hist, dec, rs, rt, cmd, ss, pf>>

\* loadFormerGroupKey has settled: lines 321-327 / 547-549 and the next turn
CliAfterWalker ==
  /\ cli.pc = "walking"
  /\ w.pc \in {"returned", "threw"}
  /\ IF w.pc = "threw"
     THEN /\ cli' = [cli EXCEPT !.pc = "failed"]
          /\ UNCHANGED <<cache, hist, w, http, mc>>
     ELSE LET keyVersion == cli.needed[cli.i]
              formerKey == w.ret
              mailGroupId == getMailMembership(hist.material).group
              stored == TakeFormerKey(cache, mailGroupId, keyVersion, formerKey)
          IN /\ cache' = stored
             /\ hist' = IF formerKey # NoKey
                        THEN [hist EXCEPT !.walks =
                                Append(@, [keyVersion |-> keyVersion, key |-> formerKey,
                                           links |-> w.links,
                                           from |-> w.currentKeyVersion])]
                        ELSE IF w.linkFailed
                          THEN [hist EXCEPT !.failed =
                                  Append(@, [keyVersion |-> keyVersion])]
                        ELSE hist
             /\ PrePassFrom(stored, cli.items, cli.needed, cli.i + 1)
  /\ UNCHANGED <<kc, dec, rs, rt, cmd, ss, pf>>

\* a callback of the fan-out settles (cli.ts 343-413 / 555-588): it reads the
\* key chain through resolveSessionKey and writes nothing.  The callback has
\* no await, so the workers resume in the order in which they took their
\* items
CliTaskSettles ==
  /\ cli.pc = "fanout"
  /\ \E k \in 1..Len(mc.at) :
       /\ mc.at[k] # 0
       /\ \A l \in 1..Len(mc.at) : mc.at[l] # 0 => mc.at[k] <= mc.at[l]
       /\ \/ mc' = FnResolved(mc, k)
          \/ mc' = FnRejected(mc, k)
  /\ UNCHANGED <<kc, cache, hist, dec, rs, w, http, cli, rt, cmd, ss, pf>>

\* await mapWithConcurrency(...) is over and its frame is gone: the command
\* goes on to its output, or to its catch block and process.exit(1)
CliFanoutOver ==
  /\ cli.pc = "fanout"
  /\ mc.pc \in {"resolved", "rejected"}
  /\ cli' = [cli EXCEPT !.pc = IF mc.pc = "resolved" THEN "done" ELSE "failed"]
  /\ mc' = McIdle
  /\ UNCHANGED <<kc, cache, hist, dec, rs, w, http, rt, cmd, ss, pf>>

CliNext ==
  \/ AccountUnlock \/ CliMailSetsLoaded \/ GroupLoaded \/ RangeLoaded \/ LoadFailed
  \/ CliAfterWalker \/ CliTaskSettles \/ CliFanoutOver

SpecCli == Fresh /\ [][CliNext]_vars

(***************************************************************************)
(* The retry loop on the key chain of an account to which the pre-pass has *)
(* added former keys of the mail group, for any MailSet of that group.     *)
(***************************************************************************)
\* cli.ts 310 and 321-322 with any key the walker may have returned
PrePassAdds ==
  /\ kc = "ready"
  /\ rt.pc = "idle"
  /\ \E keyVersion \in Versions, formerKey \in AddKeys :
       LET mailGroupId == getMailMembership(hist.material).group
       IN /\ getGroupKey(cache, mailGroupId, keyVersion) = NoKey
          /\ cache' = TakeFormerKey(cache, mailGroupId, keyVersion, formerKey)
  /\ UNCHANGED <<kc, hist, dec, rs, w, http, cli, rt, mc, cmd, ss, pf>>

\* the session key of the MailSets of the model and the blobs that wrap it
MailSetSessionKey == [id |-> "b", len |-> KEY_LENGTH_256]
RtSessionKeyBlobs == {Wrap(wk, MailSetSessionKey) : wk \in AddKeys}
RtOwnerKeyVersions == {Undefined, Num(1)} \cup {Str(v) : v \in Versions}
RtNames ==
  {Undefined, Str(""), Cipher(MailSetSessionKey, "abc"),
   Cipher([id |-> "a", len |-> KEY_LENGTH_256], "abc")}
RtColors ==
  {Undefined, Cipher(MailSetSessionKey, "1"), Cipher(Key128(MailSetSessionKey), "0"),
   Cipher([id |-> "a", len |-> KEY_LENGTH_256], "abc")}
RtEntries == {Undefined, Str("folder-id"), Aggregate("ref")}

\* a MailSet of the mail group as the server returns it
MailSetInstance(e, v, name, color, entries) ==
  LET all == ("589" :> Str("mg")) @@ ("434" :> e) @@ ("1399" :> v) @@ ("435" :> name)
             @@ ("1479" :> color) @@ ("1459" :> entries) @@ ("443" :> Aggregate("ref"))
  IN [k \in {x \in DOMAIN all : all[x] # Undefined} |-> all[k]]

\* one callback of the fan-out: cli.ts 340 and 359-393 / 552 and 562-576
RetryCall ==
  /\ kc = "ready"
  /\ rt.pc = "idle"
  /\ \E e \in {Undefined} \cup {BytesOf(b) : b \in RtSessionKeyBlobs},
        v \in RtOwnerKeyVersions, name \in RtNames, color \in RtColors,
        entries \in RtEntries :
       LET safe == MailSetInstance(e, v, name, color, entries)
           availableVersions ==
             getAvailableKeyVersions(cache, getMailMembership(hist.material).group)
       IN rt' = [pc |-> "done", safe |-> safe, availableVersions |-> availableVersions,
                 out |-> RetryLoop(cache, safe, availableVersions)]
  /\ UNCHANGED <<kc, cache, hist, dec, rs, w, http, cli, mc, cmd, ss, pf>>

RtNext == AccountUnlock \/ PrePassAdds \/ RetryCall

SpecRetry == Fresh /\ [][RtNext]_vars

(***************************************************************************)
(* mapWithConcurrency on any list and concurrency; the fn promises settle  *)
(* in any order.                                                           *)
(***************************************************************************)
ItemValues == {"x", "y"}
\* every list of up to MaxItems items, and one longer than the ceiling
ItemLists ==
  UNION {[1..n -> ItemValues] : n \in 0..MaxItems}
  \cup {[i \in 1..(FOLDER_LIST_CONCURRENCY + 1) |-> IF i % 2 = 1 THEN "x" ELSE "y"]}
Concurrencies == {1, 2, FOLDER_LIST_CONCURRENCY}

MapCall ==
  /\ mc.pc = "idle"
  /\ \E items \in ItemLists, concurrency \in Concurrencies :
       mc' = mapWithConcurrency(items, concurrency)
  /\ UNCHANGED <<kc, cache, hist, dec, rs, w, http, cli, rt, cmd, ss, pf>>

FnSettles ==
  /\ mc.pc # "idle"
  /\ \E k \in 1..Len(mc.at) :
       /\ mc.at[k] # 0
       /\ \/ mc' = FnResolved(mc, k)
          \/ mc' = FnRejected(mc, k)
  /\ UNCHANGED <<kc, cache, hist, dec, rs, w, http, cli, rt, cmd, ss, pf>>

McNext == MapCall \/ FnSettles

SpecMap == Fresh /\ [][McNext]_vars

\* the fn awaited by worker k settles
FnSettlesAt(k) ==
  /\ mc.pc # "idle"
  /\ k \in 1..Len(mc.at)
  /\ mc.at[k] # 0
  /\ \/ mc' = FnResolved(mc, k)
     \/ mc' = FnRejected(mc, k)
  /\ UNCHANGED <<kc, cache, hist, dec, rs, w, http, cli, rt, cmd, ss, pf>>

\* every promise a worker awaits settles at some time: a worker is never
\* left waiting for ever (at most FOLDER_LIST_CONCURRENCY + 1 workers exist
\* in the calls of the model)
SpecMapFair ==
  /\ Fresh
  /\ [][McNext]_vars
  /\ \A k \in 1..(FOLDER_LIST_CONCURRENCY + 1) : WF_vars(FnSettlesAt(k))

(***************************************************************************)
(* The requests of folders list and mails list (cli.ts 222-438, 453-719):  *)
(* getOrCreateSession, getPassphraseKeyForDecryption, then the             *)
(* authenticated loads in order.  Each response is "ok", "401" (the        *)
(* message of the thrown error holds "401" or "Unauthorized") or "error".  *)
(***************************************************************************)
Responses == {"ok", "401", "error"}

Commands == {"folders list", "mails list"}

\* the authenticated requests of a command, in the order it sends them; the
\* Group / GroupKey loads of the pre-pass are sent only when a MailSet names
\* a key version the chain lacks
AuthenticatedRequests(command, formerKeys) ==
  <<"loadUser", "MailboxGroupRoot", "MailBox", "MailSet">>
    \o (IF formerKeys THEN <<"GroupKey">> ELSE <<>>)
    \o (IF command = "mails list" THEN <<"MailSetEntry", "Mail">> ELSE <<>>)

StillRunning == 0 - 1

\* session: the persisted session file ("none" after clearSession);
\* attempts: sends of the request at position step; unauthorized: 401
\* responses of authenticated requests so far; retrying: control is inside
\* the catch block of loadUser
CommandFrame(command, formerKeys, session) ==
  [pc |-> "session", command |-> command,
   requests |-> AuthenticatedRequests(command, formerKeys), step |-> 1,
   session |-> session, retrying |-> FALSE, attempts |-> 0, unauthorized |-> 0,
   logins |-> 0, clears |-> 0, last |-> "", exitCode |-> StillRunning]

clearSession(frame) ==
  [frame EXCEPT !.session = "none", !.clears = @ + 1]

\* the catch block of the action: clearSession on a 401 message, then
\* process.exit(1)
OuterCatch(frame, message) ==
  [(IF message = "401" THEN clearSession(frame) ELSE frame)
     EXCEPT !.pc = "exited", !.exitCode = 1]

\* getOrCreateSession: a stored session that verifies is used; otherwise it is
\* cleared, and login with writeSession follows; a failed login throws
getOrCreateSession(frame, verify, login) ==
  IF frame.session = "stored" /\ verify = "ok"
  THEN [frame EXCEPT !.pc = "passphrase"]
  ELSE LET cleared == IF frame.session = "stored" THEN clearSession(frame) ELSE frame
       IN IF login = "ok"
          THEN [cleared EXCEPT !.pc = "passphrase", !.session = "stored",
                               !.logins = @ + 1]
          ELSE OuterCatch([cleared EXCEPT !.last = "login"], login)

\* the response to the request at position step: the next request, the end of
\* the command, the retry of loadUser, or the catch block
AfterResponse(frame, response) ==
  LET sent == [frame EXCEPT !.attempts = @ + 1,
                            !.last = response,
                            !.unauthorized = IF response = "401" THEN @ + 1 ELSE @]
  IN CASE response = "ok" ->
            IF frame.step = Len(frame.requests)
            THEN [sent EXCEPT !.pc = "exited", !.exitCode = 0]
            ELSE [sent EXCEPT !.step = @ + 1, !.attempts = 0, !.retrying = FALSE]
       [] response = "401" /\ frame.requests[frame.step] = "loadUser"
            /\ ~frame.retrying /\ frame.session # "none" ->
            [clearSession(sent) EXCEPT !.pc = "session", !.retrying = TRUE]
       [] OTHER -> OuterCatch(sent, response)

\* the command starts, with or without a persisted session
CommandCall ==
  /\ cmd.pc = "idle"
  /\ \E command \in Commands, formerKeys \in BOOLEAN, session \in {"none", "stored"} :
       cmd' = CommandFrame(command, formerKeys, session)
  /\ UNCHANGED <<kc, cache, hist, dec, rs, w, http, cli, rt, mc, ss, pf>>

\* await getOrCreateSession(...) settles: lines 227 / 238
SessionSettles ==
  /\ cmd.pc = "session"
  /\ \E verify \in Responses, login \in Responses :
       cmd' = getOrCreateSession(cmd, verify, login)
  /\ UNCHANGED <<kc, cache, hist, dec, rs, w, http, cli, rt, mc, ss, pf>>

\* await getPassphraseKeyForDecryption(...) settles: lines 228 / 240
PassphraseSettles ==
  /\ cmd.pc = "passphrase"
  /\ \E response \in {"ok", "error"} :
       cmd' = IF response = "ok"
              THEN [cmd EXCEPT !.pc = "request"]
              ELSE OuterCatch([cmd EXCEPT !.last = "passphrase"], response)
  /\ UNCHANGED <<kc, cache, hist, dec, rs, w, http, cli, rt, mc, ss, pf>>

\* the authenticated request at position step settles
RequestSettles ==
  /\ cmd.pc = "request"
  /\ \E response \in Responses :
       cmd' = AfterResponse(cmd, response)
  /\ UNCHANGED <<kc, cache, hist, dec, rs, w, http, cli, rt, mc, ss, pf>>

CmdNext == CommandCall \/ SessionSettles \/ PassphraseSettles \/ RequestSettles

SpecCommand == Fresh /\ [][CmdNext]_vars

(***************************************************************************)
(* The helper functions, each applied to one input: pf holds the function  *)
(* called, its argument and what it returned or threw.                     *)
(***************************************************************************)
\* the values a response attribute may hold: a scalar, or an array given by
\* its length and first element
ElemValues ==
  {Elem("undefined", ""), Elem("null", ""), Elem("object", "o1"), Elem("object", "o2"),
   Elem("string", "a"), Elem("number", "1"), Elem("array", "")}
ShapeValues ==
  {Scalar(e.t, e.s) : e \in ElemValues \ {Elem("array", "")}}
  \cup {ArrayOf(0, Elem("undefined", ""))}
  \cup {ArrayOf(n, e) : n \in 1..MaxArrayLen, e \in ElemValues}

UnwrapCall ==
  /\ pf.pc = "idle"
  /\ \E value \in ShapeValues :
       pf' = [pc |-> "returned", op |-> "unwrapSingleElementArray", arg |-> value,
              ret |-> unwrapSingleElementArray(value)]
  /\ UNCHANGED <<kc, cache, hist, dec, rs, w, http, cli, rt, mc, cmd, ss>>

(***************************************************************************)
(* Texts whose characters matter are sequences of one-character strings.  *)
(* String.prototype.trim and toLowerCase on them.                          *)
(***************************************************************************)
WhiteSpace == {" ", "\t"}

RECURSIVE trimStart(_)
trimStart(chars) ==
  IF chars # <<>> /\ Head(chars) \in WhiteSpace THEN trimStart(Tail(chars)) ELSE chars

RECURSIVE trimEnd(_)
trimEnd(chars) ==
  IF chars # <<>> /\ chars[Len(chars)] \in WhiteSpace
  THEN trimEnd(SubSeq(chars, 1, Len(chars) - 1))
  ELSE chars

trim(chars) == trimEnd(trimStart(chars))

UpperCase == {"A", "B", "E", "S", "T", "Y"}
LowerOf(c) ==
  CASE c = "A" -> "a" [] c = "B" -> "b" [] c = "E" -> "e" [] c = "S" -> "s"
    [] c = "T" -> "t" [] c = "Y" -> "y" [] OTHER -> c
toLowerCase(chars) == [i \in 1..Len(chars) |-> LowerOf(chars[i])]

TextsOver(alphabet, maxLen) == UNION {[1..n -> alphabet] : n \in 0..maxLen}

(***************************************************************************)
(* folders list, the display name of a folder (cli.ts 330-339, 394-409).   *)
(***************************************************************************)
SYSTEM_FOLDER_DISPLAY_NAMES ==
  ("1" :> "Inbox") @@ ("2" :> "Sent") @@ ("3" :> "Trash") @@ ("4" :> "Archive")
  @@ ("5" :> "Spam") @@ ("6" :> "Draft") @@ ("10" :> "Scheduled")

\* String(folderType ?? "")
folderTypeStr(folderType) == IF IsNullish(folderType) THEN "" ELSE JsString(folderType)

\* name is (dec["435"] ?? "") as a text, folderType is dec["436"]
displayNameBug(name, folderType) ==
  IF name # <<>> THEN Join(name)
  ELSE IF folderTypeStr(folderType) \in DOMAIN SYSTEM_FOLDER_DISPLAY_NAMES
    THEN SYSTEM_FOLDER_DISPLAY_NAMES[folderTypeStr(folderType)]
  ELSE IF folderTypeStr(folderType) = "8" THEN "Label (no name)"
  ELSE IF folderTypeStr(folderType) = "0" THEN "(no name)"
  ELSE IF Join(name) # "" THEN Join(name)
  ELSE "(no name)"
displayName(name, folderType) ==
  IF trim(name) # <<>> THEN Join(name)
  ELSE IF folderTypeStr(folderType) \in DOMAIN SYSTEM_FOLDER_DISPLAY_NAMES
    THEN SYSTEM_FOLDER_DISPLAY_NAMES[folderTypeStr(folderType)]
  ELSE IF folderTypeStr(folderType) = "8" THEN "Label (no name)"
  ELSE IF folderTypeStr(folderType) = "0" THEN "(no name)"
  ELSE IF Join(name) # "" THEN Join(name)
  ELSE "(no name)"

\* decrypted names, and the values of attribute 436 as the server sends them
FolderNames == TextsOver(WhiteSpace \cup {"n"}, MaxNameLen)
FolderTypes ==
  {Undefined, Null, Str(""), Str("x")}
  \cup {Num(n) : n \in 0..MaxFolderType} \cup {Str(String(n)) : n \in 0..MaxFolderType}

DisplayNameCall ==
  /\ pf.pc = "idle"
  /\ \E name \in FolderNames, folderType \in FolderTypes :
       pf' = [pc |-> "returned", op |-> "displayName",
              arg |-> [name |-> name, folderType |-> folderType],
              ret |-> displayName(name, folderType)]
  /\ UNCHANGED <<kc, cache, hist, dec, rs, w, http, cli, rt, mc, cmd, ss>>

(***************************************************************************)
(* buildSaltDataRequest (auth/types.ts 33-41).                             *)
(***************************************************************************)
SALT_FORMAT_ID == "418"
SALT_MAIL_ADDRESS_ID == "419"

buildSaltDataRequestBug(mailAddress) ==
  (SALT_FORMAT_ID :> "0") @@ (SALT_MAIL_ADDRESS_ID :> Join(toLowerCase(mailAddress)))
buildSaltDataRequest(mailAddress) ==
  (SALT_FORMAT_ID :> "0") @@ (SALT_MAIL_ADDRESS_ID :> Join(trim(toLowerCase(mailAddress))))

Emails == TextsOver({"A", "a", "@", " "}, MaxEmailLen)

SaltRequestCall ==
  /\ pf.pc = "idle"
  /\ \E email \in Emails :
       pf' = [pc |-> "returned", op |-> "buildSaltDataRequest", arg |-> email,
              ret |-> buildSaltDataRequest(email)]
  /\ UNCHANGED <<kc, cache, hist, dec, rs, w, http, cli, rt, mc, cmd, ss>>

(***************************************************************************)
(* getMailMembership (auth/userKeyMaterial.ts 78-83) and createKeyChain    *)
(* (crypto/keyChain.ts 40-94) on key material with memberships of several  *)
(* group types.                                                            *)
(***************************************************************************)
\* groupType of a membership without attribute 1030 (toStringOrNull gives null)
NullGroupType == "(null)"
NoMembership == [group |-> "", groupType |-> NullGroupType]

HelperUserGroups ==
  [symEncGKey : {Wrap(AccountPassphraseKey, k) : k \in AddKeys} \cup {Garbage},
   groupKeyVersion : {"0"}, group : Groups]
HelperMemberships ==
  [symEncGKey : {Wrap([id |-> "b", len |-> KEY_LENGTH_256], [id |-> "a", len |-> KEY_LENGTH_128]),
                 Garbage},
   groupKeyVersion : {"0"}, group : Groups,
   groupType : {GROUP_TYPE_MAIL, "4", NullGroupType}]
HelperMaterials ==
  [userGroup : HelperUserGroups,
   memberships : UNION {[1..n -> HelperMemberships] : n \in 0..MaxMemberships}]

\* getMailMembership(material): find(...) ?? null
MailMembershipCall ==
  /\ pf.pc = "idle"
  /\ \E material \in HelperMaterials :
       pf' = [pc |-> "returned", op |-> "getMailMembership", arg |-> material,
              ret |-> IF HasMailMembership(material)
                      THEN getMailMembership(material)
                      ELSE NoMembership]
  /\ UNCHANGED <<kc, cache, hist, dec, rs, w, http, cli, rt, mc, cmd, ss>>

\* createKeyChain(userPassphraseKey, userKeyMaterial): the cache of the chain
\* it returns, or it throws
CreateKeyChainCall ==
  /\ pf.pc = "idle"
  /\ \E material \in HelperMaterials :
       LET r == createKeyChain(AccountPassphraseKey, material)
       IN pf' = [pc |-> IF r.ok THEN "returned" ELSE "threw", op |-> "createKeyChain",
                 arg |-> material, ret |-> r.cache]
  /\ UNCHANGED <<kc, cache, hist, dec, rs, w, http, cli, rt, mc, cmd, ss>>

\* unlock with a passphrase key of either length; every way the two blobs can
\* be wrapped, with and without a Mail membership
UnlockMaterials ==
  [userGroup : [symEncGKey : MaterialBlobs, groupKeyVersion : {"0"}, group : {"ug"}],
   memberships : {<<>>} \cup
                 {<<m>> : m \in [symEncGKey : MaterialBlobs, groupKeyVersion : {"0"},
                                  group : {"mg"}, groupType : {GROUP_TYPE_MAIL}]}]

\* unlockUserGroupKey(userPassphraseKey, userKeyMaterial): the cache of the
\* chain and the keys handed to decryptKey, in order; or it throws
UnlockCall ==
  /\ pf.pc = "idle"
  /\ \E userPassphraseKey \in Keys, material \in UnlockMaterials :
       LET r == createKeyChain(userPassphraseKey, material)
       IN pf' = [pc |-> IF r.ok THEN "returned" ELSE "threw", op |-> "unlockUserGroupKey",
                 arg |-> [userPassphraseKey |-> userPassphraseKey, material |-> material],
                 ret |-> r.cache, tried |-> r.tried]
  /\ UNCHANGED <<kc, cache, hist, dec, rs, w, http, cli, rt, mc, cmd, ss>>

(***************************************************************************)
(* parseUserKeyMaterial (auth/userKeyMaterial.ts 47-73).  An object of the *)
(* user instance is named by the text s of its value; RawObjects gives its *)
(* attributes.  Attribute 96 is an array of such objects, or no array.     *)
(***************************************************************************)
USER_USER_GROUP == "95"
USER_MEMBERSHIPS == "96"
GM_SYM_ENC_GKEY == "27"
GM_GROUP == "29"
GM_GROUP_TYPE == "1030"
GM_GROUP_KEY_VERSION == "2246"
GM_SYM_KEY_VERSION == "2247"

\* o1 carries every attribute, o2 only the group and its type
RawObjects ==
  ("o1" :> ((GM_SYM_ENC_GKEY :> Base64Of(Wrap(AccountPassphraseKey, AccountPassphraseKey)))
            @@ (GM_GROUP :> Str("ug")) @@ (GM_GROUP_TYPE :> Undefined)
            @@ (GM_GROUP_KEY_VERSION :> Num(1)) @@ (GM_SYM_KEY_VERSION :> Str("0"))))
  @@ ("o2" :> ((GM_SYM_ENC_GKEY :> Undefined)
               @@ (GM_GROUP :> Str("mg")) @@ (GM_GROUP_TYPE :> Num(5))
               @@ (GM_GROUP_KEY_VERSION :> Null) @@ (GM_SYM_KEY_VERSION :> Undefined)))

\* the null of toStringOrNull
NullText == "(null)"
toStringOrNull(value) == IF IsNullish(value) THEN NullText ELSE JsString(value)

\* a ?? b on texts
OrElse(text, default) == IF text = NullText THEN default ELSE text

parseGroupMembership(raw) ==
  [symEncGKey |-> toUint8Array(raw[GM_SYM_ENC_GKEY]),
   groupKeyVersion |-> OrElse(toStringOrNull(raw[GM_GROUP_KEY_VERSION]), "0"),
   symKeyVersion |-> OrElse(toStringOrNull(raw[GM_SYM_KEY_VERSION]), "0"),
   group |-> OrElse(toStringOrNull(raw[GM_GROUP]), ""),
   groupType |-> toStringOrNull(raw[GM_GROUP_TYPE])]

NoUserKeyMaterial == [userGroup |-> NoMembership, memberships |-> <<>>]

\* userRaw[95] is a value of ShapeValues; userRaw[96] is the sequence of the
\* objects of the array, isArray telling whether it is an array at all
parseUserKeyMaterialBug(userRaw) ==
  LET userGroupRaw == userRaw[USER_USER_GROUP]
      membershipsRaw == userRaw[USER_MEMBERSHIPS]
  IN IF IsNullish(userGroupRaw) \/ userGroupRaw.t # "object"
     THEN [threw |-> TRUE, message |-> "User entity missing or invalid userGroup",
           material |-> NoUserKeyMaterial]
     ELSE [threw |-> FALSE, message |-> "",
           material |->
             [userGroup |-> parseGroupMembership(RawObjects[userGroupRaw.s]),
              memberships |->
                IF membershipsRaw.isArray
                THEN [i \in 1..Len(membershipsRaw.elems) |->
                        parseGroupMembership(RawObjects[membershipsRaw.elems[i]])]
                ELSE <<>>]]
parseUserKeyMaterial(userRaw) ==
  LET userGroupRaw == unwrapSingleElementArray(userRaw[USER_USER_GROUP])
      membershipsRaw == userRaw[USER_MEMBERSHIPS]
  IN IF IsNullish(userGroupRaw) \/ userGroupRaw.t # "object"
     THEN [threw |-> TRUE, message |-> "User entity missing or invalid userGroup",
           material |-> NoUserKeyMaterial]
     ELSE [threw |-> FALSE, message |-> "",
           material |->
             [userGroup |-> parseGroupMembership(RawObjects[userGroupRaw.s]),
              memberships |->
                IF membershipsRaw.isArray
                THEN [i \in 1..Len(membershipsRaw.elems) |->
                        parseGroupMembership(RawObjects[membershipsRaw.elems[i]])]
                ELSE <<>>]]

MembershipsRaws ==
  {[isArray |-> FALSE, elems |-> <<>>]}
  \cup {[isArray |-> TRUE, elems |-> e] :
          e \in UNION {[1..n -> DOMAIN RawObjects] : n \in 0..MaxMemberships}}
UserRaws ==
  {(USER_USER_GROUP :> ug) @@ (USER_MEMBERSHIPS :> ms) :
     ug \in ShapeValues, ms \in MembershipsRaws}

ParseUserCall ==
  /\ pf.pc = "idle"
  /\ \E userRaw \in UserRaws :
       LET r == parseUserKeyMaterial(userRaw)
       IN pf' = [pc |-> IF r.threw THEN "threw" ELSE "returned",
                 op |-> "parseUserKeyMaterial", arg |-> userRaw,
                 message |-> r.message, ret |-> r.material]
  /\ UNCHANGED <<kc, cache, hist, dec, rs, w, http, cli, rt, mc, cmd, ss>>

(***************************************************************************)
(* convertDbToJsType on decrypted bytes (crypto/decryptInstance.ts         *)
(* 133-156).  Bytes are sequences of numbers; utf8Uint8ArrayToString       *)
(* decodes the bytes of the characters the model uses.                     *)
(***************************************************************************)
Utf8Chars == (48 :> "0") @@ (49 :> "1") @@ (50 :> "2") @@ (52 :> "4") @@ (97 :> "a")
utf8Uint8ArrayToString(bytes) == Join([i \in 1..Len(bytes) |-> Utf8Chars[bytes[i]]])

DecryptedBytes == UNION {[1..n -> DOMAIN Utf8Chars] : n \in 0..MaxBytesLen}
ScalarTypes == {ValueType[k] : k \in DOMAIN ValueType}

ConvertCall ==
  /\ pf.pc = "idle"
  /\ \E type \in ScalarTypes \cup {"Other"}, decryptedValue \in DecryptedBytes :
       pf' = [pc |-> "returned", op |-> "convertDbToJsType",
              arg |-> [type |-> type, decryptedValue |-> decryptedValue],
              ret |-> convertDbToJsType(type, utf8Uint8ArrayToString(decryptedValue))]
  /\ UNCHANGED <<kc, cache, hist, dec, rs, w, http, cli, rt, mc, cmd, ss>>

\* the caller has used the result
PfOver ==
  /\ pf.pc # "idle"
  /\ pf' = PfIdle
  /\ UNCHANGED <<kc, cache, hist, dec, rs, w, http, cli, rt, mc, cmd, ss>>

PfNext ==
  \/ UnwrapCall \/ DisplayNameCall \/ SaltRequestCall \/ MailMembershipCall
  \/ CreateKeyChainCall \/ ParseUserCall \/ ConvertCall \/ UnlockCall
  \/ PfOver

SpecHelpers == Fresh /\ [][PfNext]_vars

(***************************************************************************)
(* The session store (session.ts: isPersistenceDisabled, readSession,      *)
(* writeSession, clearSession), getOrCreateSession (cli.ts 76-131), login  *)
(* (auth/login.ts) and the commands auth check, auth logout, folders list. *)
(* One command is one process: the environment is chosen when it starts,   *)
(* the session file outlives it.                                           *)
(***************************************************************************)
\* the environment variable is not set
EnvUnset == <<"(unset)">>

EnvValues == {EnvUnset, <<"1">>, <<"0">>, <<"t", "r", "u", "e">>, <<"T", "r", "u", "e">>,
              <<"y", "e", "s">>, <<"Y", "E", "S">>}

isPersistenceDisabledBug(v) ==
  v # EnvUnset /\ (Join(v) = "1" \/ Join(toLowerCase(v)) = "true")
isPersistenceDisabled(v) ==
  v # EnvUnset /\ (Join(v) = "1" \/ Join(toLowerCase(v)) = "true" \/ Join(v) = "yes")

\* the session file: absent, no JSON text, or a JSON object; others are the
\* properties of the object beyond the four of a Session
FileOf(kind, baseUrl, accessToken, userId, sessionId) ==
  [kind |-> kind, baseUrl |-> baseUrl, accessToken |-> accessToken,
   userId |-> userId, sessionId |-> sessionId, others |-> {}]
NoFile ==
  FileOf("none", Scalar("undefined", ""), Scalar("undefined", ""), Scalar("undefined", ""), FALSE)
CorruptFile ==
  FileOf("corrupt", Scalar("undefined", ""), Scalar("undefined", ""), Scalar("undefined", ""), FALSE)

BaseUrl == "https://app"

InitialFiles ==
  {NoFile, CorruptFile,
   FileOf("json", Scalar("string", BaseUrl), Scalar("string", "t0"), Scalar("string", "u"), TRUE),
   FileOf("json", Scalar("string", BaseUrl), Scalar("string", "t0"),
          ArrayOf(1, Elem("string", "u")), FALSE),
   FileOf("json", Scalar("string", BaseUrl), Scalar("string", "t0"),
          ArrayOf(0, Elem("undefined", "")), TRUE),
   FileOf("json", Scalar("string", BaseUrl), Scalar("undefined", ""), Scalar("string", "u"), TRUE)}

\* the null of readSession
NoSession ==
  [present |-> FALSE, baseUrl |-> "", accessToken |-> "", userId |-> "", sessionId |-> FALSE,
   others |-> {}]

\* String(element) of an array element
StringOfElem(elem) ==
  CASE elem.t \in {"string", "number"} -> elem.s
    [] elem.t = "null" -> "null"
    [] elem.t = "undefined" -> "undefined"
    [] OTHER -> "[object Object]"

readSession(v, file) ==
  IF isPersistenceDisabled(v) THEN [threw |-> FALSE, session |-> NoSession]
  ELSE IF file.kind = "none" THEN [threw |-> FALSE, session |-> NoSession]
  ELSE IF file.kind = "corrupt" THEN [threw |-> TRUE, session |-> NoSession]
  ELSE IF file.baseUrl.t # "string" \/ file.accessToken.t # "string"
  THEN [threw |-> FALSE, session |-> NoSession]
  ELSE LET userId == IF file.userId.t = "string" THEN file.userId.s
                     ELSE IF file.userId.t = "array" /\ file.userId.len > 0
                     THEN StringOfElem(file.userId.first)
                     ELSE NullText
       IN IF userId = NullText THEN [threw |-> FALSE, session |-> NoSession]
          ELSE [threw |-> FALSE,
                session |-> [present |-> TRUE, baseUrl |-> file.baseUrl.s,
                             accessToken |-> file.accessToken.s, userId |-> userId,
                             sessionId |-> file.sessionId, others |-> {}]]

writeSession(v, file, session) ==
  IF isPersistenceDisabled(v) THEN file
  ELSE [FileOf("json", Scalar("string", session.baseUrl),
               Scalar("string", session.accessToken),
               Scalar("string", session.userId), session.sessionId)
          EXCEPT !.others = session.others]

\* clearSession of the session store
unlinkSessionBug(v, file) == file
unlinkSession(v, file) == IF isPersistenceDisabled(v) THEN file ELSE NoFile

SsCommands == {"auth check", "folders list", "mails list", "profile"}

\* userPassphraseKey: whether the result carries a passphrase key
NoResult ==
  [accessToken |-> "", userId |-> "", usedStoredSession |-> FALSE, userPassphraseKey |-> FALSE]

\* no command runs: the file, the number of commands run so far, and whether
\* the last one was auth logout
SsShell(file, commands, afterLogout) ==
  [pc |-> "shell", file |-> file, commands |-> commands, afterLogout |-> afterLogout,
   env |-> EnvUnset, command |-> "", trace |-> <<>>, callAt |-> 0,
   fileAtStart |-> file, fileAtCall |-> file, session |-> NoSession, result |-> NoResult,
   retrying |-> FALSE, lastError |-> "", exitCode |-> StillRunning]

\* one more call or request in the trace of the command
Log(frame, e, token, outcome) ==
  [frame EXCEPT !.trace = Append(@, [e |-> e, token |-> token, outcome |-> outcome])]

\* the access token the service issues at the next login
FreshToken(frame) ==
  "t" \o String(2 * frame.commands + (IF frame.retrying THEN 1 ELSE 0))

\* getOrCreateSession is called: lines 80-85
CallGetOrCreateSession(frame) ==
  LET r == readSession(frame.env, frame.file)
      session == IF r.threw THEN NoSession ELSE r.session
      called == [Log(frame, "getOrCreateSession", "", "") EXCEPT
                   !.callAt = Len(frame.trace) + 1, !.fileAtCall = frame.file,
                   !.session = session, !.result = NoResult]
  IN [Log(called, "readSession", session.accessToken,
          IF r.threw THEN "threw" ELSE IF session.present THEN "session" ELSE "null")
        EXCEPT !.pc = IF session.present THEN "verify" ELSE "credentials"]

\* the catch block of the action: process.exit(1); folders list and mails
\* list clear the session when the message names a 401
SsCatch(frame, message) ==
  LET failed == [frame EXCEPT !.pc = "exited", !.exitCode = 1, !.lastError = message]
  IN IF frame.command \in {"folders list", "mails list"} /\ message = "401"
     THEN [Log(failed, "clearSession", "", "") EXCEPT
             !.file = unlinkSession(frame.env, frame.file)]
     ELSE failed

\* verifySession resolved: lines 89-98
StoredSessionVerifiedBug(frame) ==
  [Log(Log(frame, "verifySession", frame.session.accessToken, "ok"), "clearSession", "", "")
     EXCEPT !.pc = "session",
            !.file = unlinkSession(frame.env, frame.file),
            !.result = [accessToken |-> frame.session.accessToken,
                        userId |-> frame.session.userId, usedStoredSession |-> TRUE,
                        userPassphraseKey |-> FALSE]]
StoredSessionVerified(frame) ==
  [Log(frame, "verifySession", frame.session.accessToken, "ok")
     EXCEPT !.pc = "session",
            !.result = [accessToken |-> frame.session.accessToken,
                        userId |-> frame.session.userId, usedStoredSession |-> TRUE,
                        userPassphraseKey |-> FALSE]]

\* verifySession rejected with a network error or an auth failure: lines 99-110
StoredSessionRejectedBug(frame, outcome) ==
  [Log(frame, "verifySession", frame.session.accessToken, outcome)
     EXCEPT !.pc = "credentials"]
StoredSessionRejected(frame, outcome) ==
  [Log(Log(frame, "verifySession", frame.session.accessToken, outcome), "clearSession", "", "")
     EXCEPT !.pc = "credentials", !.file = unlinkSession(frame.env, frame.file)]

\* the challenges of a create-session return: none, an empty list, one entry
NoChallenges == 0 - 1
ChallengeCounts == {NoChallenges, 0, 1}
UserShapes == {Scalar("string", "u"), ArrayOf(1, Elem("string", "u"))}

TwoFactorRequired == "This account has two-factor authentication (2FA) enabled."

\* the object getOrCreateSession hands to writeSession: cli.ts 124-129
PersistedSessionBug(baseUrl, accessToken, userId) ==
  [present |-> TRUE, baseUrl |-> baseUrl, accessToken |-> accessToken,
   userId |-> userId, sessionId |-> TRUE,
   others |-> {[name |-> "userPassphraseKey", value |-> "key"]}]
PersistedSession(baseUrl, accessToken, userId) ==
  [present |-> TRUE, baseUrl |-> baseUrl, accessToken |-> accessToken,
   userId |-> userId, sessionId |-> TRUE, others |-> {}]

\* the create-session request of login settled (login.ts 66-84), and the rest
\* of getOrCreateSession after it (cli.ts 117-130)
createSessionBug(frame, response, challenges, user) ==
  LET sent == Log(frame, "sessionservice", "",
                 IF response = "ok" /\ challenges > 0 THEN "challenges" ELSE response)
  IN IF response # "ok" THEN SsCatch(sent, response)
     ELSE LET accessToken == FreshToken(frame)
              userId == IF user.t = "string" THEN user.s
                        ELSE IF user.t = "array" /\ user.len > 0
                        THEN StringOfElem(user.first)
                        ELSE JsString(Undefined)
              session == PersistedSession(BaseUrl, accessToken, userId)
          IN [Log(sent, "writeSession", accessToken, "")
                EXCEPT !.pc = "session",
                       !.file = writeSession(frame.env, frame.file, session),
                       !.result = [accessToken |-> accessToken, userId |-> userId,
                                   usedStoredSession |-> FALSE,
                                   userPassphraseKey |-> FALSE]]
createSession(frame, response, challenges, user) ==
  LET sent == Log(frame, "sessionservice", "",
                 IF response = "ok" /\ challenges > 0 THEN "challenges" ELSE response)
  IN IF response # "ok" THEN SsCatch(sent, response)
     ELSE IF challenges # NoChallenges /\ challenges > 0
     THEN SsCatch(sent, TwoFactorRequired)
     ELSE LET accessToken == FreshToken(frame)
              userId == IF user.t = "string" THEN user.s
                        ELSE IF user.t = "array" /\ user.len > 0
                        THEN StringOfElem(user.first)
                        ELSE JsString(Undefined)
              session == PersistedSession(BaseUrl, accessToken, userId)
          IN [Log(sent, "writeSession", accessToken, "")
                EXCEPT !.pc = "session",
                       !.file = writeSession(frame.env, frame.file, session),
                       !.result = [accessToken |-> accessToken, userId |-> userId,
                                   usedStoredSession |-> FALSE,
                                   userPassphraseKey |-> FALSE]]

\* loadUser answered 401 outside the retry: lines 232-245
UnauthorizedLoadUser(frame) ==
  LET r == readSession(frame.env, frame.file)
      read == Log(frame, "readSession", r.session.accessToken,
                  IF r.threw THEN "threw" ELSE IF r.session.present THEN "session" ELSE "null")
  IN IF r.threw THEN SsCatch(read, "error")
     ELSE IF r.session.present
     THEN CallGetOrCreateSession(
            [Log(read, "clearSession", "", "") EXCEPT
               !.file = unlinkSession(frame.env, frame.file), !.retrying = TRUE])
     ELSE SsCatch(read, "401")

\* the session file before the first command
SsBoot ==
  /\ ss.pc = "idle"
  /\ \E file \in InitialFiles : ss' = SsShell(file, 0, "no")
  /\ UNCHANGED <<kc, cache, hist, dec, rs, w, http, cli, rt, mc, cmd, pf>>

\* auth logout: cli.ts 207-213
AuthLogout ==
  /\ ss.pc \in {"shell", "exited"}
  /\ ss.commands < MaxCommands
  /\ \E v \in EnvValues :
       ss' = [Log(SsShell(ss.file, ss.commands + 1,
                          IF isPersistenceDisabled(v) THEN "disabled" ELSE "enabled"),
                  "clearSession", "", "")
                EXCEPT !.pc = "exited", !.env = v, !.command = "auth logout",
                       !.file = unlinkSession(v, ss.file), !.exitCode = 0]
  /\ UNCHANGED <<kc, cache, hist, dec, rs, w, http, cli, rt, mc, cmd, pf>>

\* auth check or folders list starts and calls getOrCreateSession
SsCommandStarts ==
  /\ ss.pc \in {"shell", "exited"}
  /\ ss.commands < MaxCommands
  /\ \E v \in EnvValues, command \in SsCommands :
       ss' = CallGetOrCreateSession(
               [SsShell(ss.file, ss.commands + 1,
                        IF ss.command = "auth logout" THEN ss.afterLogout ELSE "no")
                  EXCEPT !.env = v, !.command = command])
  /\ UNCHANGED <<kc, cache, hist, dec, rs, w, http, cli, rt, mc, cmd, pf>>

\* await verifySession(...) settles
SsVerifySettles ==
  /\ ss.pc = "verify"
  /\ \E outcome \in {"ok", "network", "auth"} :
       ss' = IF outcome = "ok" THEN StoredSessionVerified(ss)
             ELSE StoredSessionRejected(ss, outcome)
  /\ UNCHANGED <<kc, cache, hist, dec, rs, w, http, cli, rt, mc, cmd, pf>>

\* await getCredentials() settles: cli.ts 115
SsCredentialsSettle ==
  /\ ss.pc = "credentials"
  /\ \E outcome \in {"ok", "error"} :
       ss' = IF outcome = "ok" THEN [Log(ss, "getCredentials", "", outcome) EXCEPT !.pc = "salt"]
             ELSE SsCatch(Log(ss, "getCredentials", "", outcome), outcome)
  /\ UNCHANGED <<kc, cache, hist, dec, rs, w, http, cli, rt, mc, cmd, pf>>

\* the salt request of login settles: login.ts 47-53
SsSaltSettles ==
  /\ ss.pc = "salt"
  /\ \E response \in Responses :
       ss' = IF response = "ok" THEN [Log(ss, "saltservice", "", response) EXCEPT !.pc = "create"]
             ELSE SsCatch(Log(ss, "saltservice", "", response), response)
  /\ UNCHANGED <<kc, cache, hist, dec, rs, w, http, cli, rt, mc, cmd, pf>>

\* the create-session request of login settles
SsCreateSessionSettles ==
  /\ ss.pc = "create"
  /\ \E response \in Responses, challenges \in ChallengeCounts, user \in UserShapes :
       ss' = createSession(ss, response, challenges, user)
  /\ UNCHANGED <<kc, cache, hist, dec, rs, w, http, cli, rt, mc, cmd, pf>>

\* getOrCreateSession has returned: auth check prints and ends, profile goes
\* on to loadUser, folders list and mails list to getPassphraseKeyForDecryption
SsSessionReturned ==
  /\ ss.pc = "session"
  /\ ss' = CASE ss.command = "auth check" -> [ss EXCEPT !.pc = "exited", !.exitCode = 0]
             [] ss.command = "profile" -> [ss EXCEPT !.pc = "loadUser"]
             [] OTHER -> [ss EXCEPT !.pc = "passphrase"]
  /\ UNCHANGED <<kc, cache, hist, dec, rs, w, http, cli, rt, mc, cmd, pf>>

\* getPassphraseKeyForDecryption (cli.ts 137-148): the key of the result when
\* it carries one; otherwise getCredentials and, in getPassphraseKeyForSession,
\* the salt request, whose outcome is given.  The call is logged with the
\* origin of the result.
getPassphraseKeyForDecryption(frame, outcome) ==
  LET called == Log(frame, "getPassphraseKeyForDecryption",
                    IF frame.result.usedStoredSession THEN "stored" ELSE "login", "")
  IN IF frame.result.userPassphraseKey THEN [called EXCEPT !.pc = "loadUser"]
     ELSE LET asked == Log(Log(called, "getCredentials", "", "ok"), "saltservice", "", outcome)
          IN IF outcome = "ok" THEN [asked EXCEPT !.pc = "loadUser"]
             ELSE SsCatch(asked, outcome)

\* await getPassphraseKeyForDecryption(...) settles
SsPassphraseSettles ==
  /\ ss.pc = "passphrase"
  /\ \E outcome \in {"ok", "error"} : ss' = getPassphraseKeyForDecryption(ss, outcome)
  /\ UNCHANGED <<kc, cache, hist, dec, rs, w, http, cli, rt, mc, cmd, pf>>

\* await loadUser(...) settles: cli.ts 230-247, 461-478; in profile (737) a
\* failure goes to the catch block and the command ends after the answer
SsLoadUserSettles ==
  /\ ss.pc = "loadUser"
  /\ \E response \in Responses :
       LET sent == Log(ss, "loadUser", ss.result.accessToken, response)
       IN ss' = CASE response = "ok" /\ ss.command = "profile" ->
                       [sent EXCEPT !.pc = "exited", !.exitCode = 0]
                  [] response = "ok" -> [sent EXCEPT !.pc = "unlock"]
                  [] response = "401" /\ ~ss.retrying /\ ss.command # "profile" ->
                       UnauthorizedLoadUser(sent)
                  [] OTHER -> SsCatch(sent, response)
  /\ UNCHANGED <<kc, cache, hist, dec, rs, w, http, cli, rt, mc, cmd, pf>>

\* unlockUserGroupKey creates the key chain, the entity loads follow:
\* cli.ts 248-262
SsUnlock ==
  /\ ss.pc = "unlock"
  /\ \E outcome \in {"ok", "error"} :
       ss' = IF outcome = "ok"
             THEN [Log(Log(ss, "unlockUserGroupKey", "", outcome), "loadEntity",
                       ss.result.accessToken, "ok")
                     EXCEPT !.pc = "exited", !.exitCode = 0]
             ELSE SsCatch(Log(ss, "unlockUserGroupKey", "", outcome), outcome)
  /\ UNCHANGED <<kc, cache, hist, dec, rs, w, http, cli, rt, mc, cmd, pf>>

SsNext ==
  \/ SsBoot \/ AuthLogout \/ SsCommandStarts \/ SsVerifySettles \/ SsCredentialsSettle
  \/ SsSaltSettles \/ SsCreateSessionSettles \/ SsSessionReturned \/ SsPassphraseSettles
  \/ SsLoadUserSettles \/ SsUnlock

SpecSession == Fresh /\ [][SsNext]_vars

(***************************************************************************)
(* C1: decryptParsedInstance(T, inst, null) gives every encrypted          *)
(* attribute of T.values the zero value of its scalar type ("", 0, empty   *)
(* bytes, epoch date, false), gives every unencrypted attribute of         *)
(* T.values the wire value unchanged, and copies every wire key that is    *)
(* not in T.values through unchanged.                                      *)
(***************************************************************************)
C1_Zero(type) ==
  CASE type = "String" -> Str("")
    [] type = "CompressedString" -> Str("")
    [] type = "Number" -> Num(0)
    [] type = "Bytes" -> BytesV("")
    [] type = "Date" -> DateV(0)
    [] type = "Boolean" -> Bool(FALSE)

C1_NullKeyDefaults ==
  (dec.pc = "done" /\ dec.sessionKey = NoKey) =>
    /\ \A k \in DOMAIN dec.typeModel.values :
         /\ k \in DOMAIN dec.out.result
         /\ dec.out.result[k] =
              IF dec.typeModel.values[k].encrypted
              THEN C1_Zero(dec.typeModel.values[k].type)
              ELSE Get(dec.instance, k)
    /\ \A k \in DOMAIN dec.instance \ DOMAIN dec.typeModel.values :
         k \in DOMAIN dec.out.result /\ dec.out.result[k] = dec.instance[k]

\* a null-key call on an instance that carries a ciphertext in an encrypted
\* Boolean attribute and a key outside T.values
C1_Witness ==
  /\ dec.pc = "done" /\ dec.sessionKey = NoKey
  /\ \E k \in DOMAIN dec.typeModel.values \cap DOMAIN dec.instance :
       /\ dec.typeModel.values[k].encrypted
       /\ dec.typeModel.values[k].type = "Boolean"
       /\ "aes" \in dec.instance[k].blob.ok
  /\ \E k \in DOMAIN dec.instance : k \notin DOMAIN dec.typeModel.values

(***************************************************************************)
(* C2: for a type model with encrypted = false, resolveSessionKey returns  *)
(* null, makes no getGroupKey lookup and attempts no unwrap, whatever the  *)
(* instance and the key chain hold.                                        *)
(***************************************************************************)
C2_UnencryptedTypeSkips ==
  (rs.pc = "done" /\ ~rs.typeModel.encrypted) =>
    /\ rs.out.result = NoKey
    /\ rs.out.lookups = <<>>
    /\ rs.out.attempts = <<>>
    /\ ~rs.out.threw

\* the call on a MailboxGroupRoot instance whose attributes 590/591/1396 name
\* a cached group key and a session key wrapped under it
C2_Witness ==
  /\ rs.pc = "done" /\ ~rs.typeModel.encrypted
  /\ LET g == Get(rs.instance, ATTR_OWNER_GROUP)
         e == Get(rs.instance, ATTR_OWNER_ENC_SESSION_KEY)
         v == Get(rs.instance, ATTR_OWNER_KEY_VERSION)
     IN /\ g.t = "string" /\ v.t = "string" /\ e.t = "Uint8Array"
        /\ g.s \in Groups
        /\ cache[g.s].present
        /\ MapHas(cache[g.s].keys, v.s)
        /\ e.blob.wk = MapGet(cache[g.s].keys, v.s)

(***************************************************************************)
(* C3: for an encrypted type, resolveSessionKey returns null when the      *)
(* instance lacks the owner-group attribute or the owner-enc-session-key   *)
(* attribute, or the key chain holds no key for (owner group, selected     *)
(* version); then no unwrap method is attempted and neither diagnostic     *)
(* callback is invoked.                                                    *)
(***************************************************************************)
C3_SelectedVersion ==
  LET v == Get(rs.instance, getOwnerAttrs(rs.typeModel).ownerKeyVersion)
  IN IF rs.tryKeyVersion # NoVersion THEN rs.tryKeyVersion
     ELSE IF v.t = "string" THEN v.s
     ELSE IF v.t = "number" THEN String(v.n)
     ELSE ""

C3_NoKeyCached(g, v) ==
  \/ g \notin Groups
  \/ ~cache[g].present
  \/ \A i \in 1..Len(cache[g].keys) : cache[g].keys[i].k # v

C3_Missing ==
  LET attrs == getOwnerAttrs(rs.typeModel)
  IN \/ attrs.ownerGroup \notin DOMAIN rs.instance
     \/ rs.instance[attrs.ownerGroup] = Null
     \/ attrs.ownerEncSessionKey \notin DOMAIN rs.instance
     \/ rs.instance[attrs.ownerEncSessionKey] = Null
     \/ C3_NoKeyCached(rs.instance[attrs.ownerGroup].s, C3_SelectedVersion)

C3_MissingInputsGiveNull ==
  (rs.pc = "done" /\ rs.typeModel.encrypted /\ C3_Missing) =>
    /\ rs.out.result = NoKey
    /\ rs.out.attempts = <<>>
    /\ rs.out.resolved = <<>>
    /\ ~rs.out.threw

\* the call on an instance with both attributes present and a session key
\* blob that the group's current key would unwrap, at a version not cached
C3_Witness ==
  /\ rs.pc = "done" /\ rs.typeModel.encrypted
  /\ LET attrs == getOwnerAttrs(rs.typeModel)
     IN /\ attrs.ownerGroup \in DOMAIN rs.instance
        /\ attrs.ownerEncSessionKey \in DOMAIN rs.instance
        /\ rs.instance[attrs.ownerGroup] = Str("mg")
        /\ rs.instance[attrs.ownerEncSessionKey].t = "Uint8Array"
        /\ rs.instance[attrs.ownerEncSessionKey].blob.wk
             = MapGet(cache["mg"].keys, cache["mg"].currentVersion)
        /\ C3_NoKeyCached("mg", C3_SelectedVersion)

(***************************************************************************)
(* C4: whenever unlock returned a key chain, getGroupKey(userGroup.group,  *)
(* userGroup.groupKeyVersion) is non-null and, if the key material has a   *)
(* membership of groupType "5", getGroupKey(membership.group,              *)
(* membership.groupKeyVersion) is non-null; also after any addGroupKey     *)
(* calls.                                                                  *)
(***************************************************************************)
C4_UnlockKeysPresent ==
  kc = "ready" =>
    /\ getGroupKey(cache, hist.material.userGroup.group,
                   hist.material.userGroup.groupKeyVersion) # NoKey
    /\ HasMailMembership(hist.material) =>
         getGroupKey(cache, getMailMembership(hist.material).group,
                     getMailMembership(hist.material).groupKeyVersion) # NoKey

(***************************************************************************)
(* C5: for every group g, getAvailableKeyVersions(g) is the versions       *)
(* planted for g at unlock followed by the versions passed to              *)
(* addGroupKey(g, ...), each once, in order of first insertion.            *)
(***************************************************************************)
C5_Planted(g) ==
  LET u == hist.material.userGroup
      m == getMailMembership(hist.material)
      user == IF u.group = g THEN <<u.groupKeyVersion>> ELSE <<>>
      mail == IF HasMailMembership(hist.material) /\ m.group = g
              THEN <<m.groupKeyVersion>> ELSE <<>>
  IN user \o mail

C5_Added(g) ==
  LET Pick(a) == a.groupId = g
  IN [i \in 1..Len(SelectSeq(hist.adds, Pick)) |-> SelectSeq(hist.adds, Pick)[i].keyVersion]

RECURSIVE C5_Distinct(_)
C5_Distinct(seq) ==
  IF seq = <<>> THEN <<>>
  ELSE LET front == C5_Distinct(SubSeq(seq, 1, Len(seq) - 1))
           last == seq[Len(seq)]
       IN IF \E i \in 1..Len(front) : front[i] = last THEN front ELSE Append(front, last)

C5_VersionsAreInsertions ==
  kc = "ready" =>
    \A g \in Groups :
      getAvailableKeyVersions(cache, g) = C5_Distinct(C5_Planted(g) \o C5_Added(g))

(***************************************************************************)
(* C7: once getGroupKey(g, v) returns a key K, it returns the same K after *)
(* every later addGroupKey call, and every stored key is the key that was  *)
(* handed in, never its 128-bit companion.                                 *)
(***************************************************************************)
C7_StoredKeyKept ==
  [][\A g \in Groups, v \in Versions :
       (kc = "ready" /\ getGroupKey(cache, g, v) # NoKey)
         => getGroupKey(cache', g, v) = getGroupKey(cache, g, v)]_vars

(***************************************************************************)
(* C6: in folders list and mails list, every key the key chain returns for *)
(* the mail group at some version was planted at unlock, or is the result  *)
(* of exactly (current - version) successful decryptions of former-key     *)
(* links starting from the key cached at the current version, whatever the *)
(* server answered.                                                        *)
(***************************************************************************)
C6_KeysComeFromFullWalks ==
  kc = "ready" =>
    LET mailMembership == getMailMembership(hist.material)
    IN \A v \in VersionTexts :
         LET key == getGroupKey(cache, mailMembership.group, v)
         IN key # NoKey =>
              \/ getGroupKey(hist.unlocked, mailMembership.group, v) = key
              \/ \E i \in 1..Len(hist.walks) :
                   /\ hist.walks[i].keyVersion = v
                   /\ hist.walks[i].key = key
                   /\ hist.walks[i].from = mailMembership.groupKeyVersion
                   /\ hist.walks[i].links = Number(mailMembership.groupKeyVersion) - Number(v)

C9_Cached(g, v) ==
  IF cache[g].present /\ \E i \in 1..Len(cache[g].keys) : cache[g].keys[i].k = v
  THEN cache[g].keys[CHOOSE i \in 1..Len(cache[g].keys) : cache[g].keys[i].k = v].v
  ELSE NoKey

C9_NoWalkNeeded ==
  (/\ w.pc # "idle"
   /\ ParsesAsKeyVersion(w.currentKeyVersion) /\ ParsesAsKeyVersion(w.targetKeyVersion)
   /\ Number(w.currentKeyVersion) <= Number(w.targetKeyVersion))
    => /\ w.pc = "returned"
       /\ http = <<>>
       /\ w.ret = C9_Cached(w.groupId, w.targetKeyVersion)

\* the call with current = target on a group whose key at that version is cached
C9_Witness ==
  /\ w.pc = "returned"
  /\ w.currentKeyVersion = w.targetKeyVersion
  /\ w.ret # NoKey
  /\ http = <<>>

(***************************************************************************)
(* C10: the former-keys range query has count = current - target,          *)
(* reverse = true, start = the custom id of the decimal text of the        *)
(* current version, and goes to the list id held by the Group entity's     *)
(* former-keys aggregation.                                                *)
(***************************************************************************)
\* base64url without padding of the ASCII decimal digits
C10_CustomId(n) ==
  CASE n = 0 -> "MA" [] n = 1 -> "MQ" [] n = 2 -> "Mg" [] n = 3 -> "Mw"
    [] n = 4 -> "NA" [] n = 5 -> "NQ" [] OTHER -> "?"

C10_ListId(groupRaw) ==
  IF groupRaw.listAttr.t = "array" THEN groupRaw.listAttr.first.s ELSE groupRaw.listAttr.s

C10_RangeQuery ==
  \A i \in 1..Len(http) :
    http[i].op = "loadRange" =>
      /\ http[i].typeModel = "GroupKey"
      /\ http[i].count = Number(w.currentKeyVersion) - Number(w.targetKeyVersion)
      /\ http[i].reverse = TRUE
      /\ http[i].start = C10_CustomId(Number(w.currentKeyVersion))
      /\ http[i].id = C10_ListId(w.groupRaw)
      /\ Number(w.targetKeyVersion) < Number(w.currentKeyVersion)

\* a range query for two links, on a list id that came inside an array
C10_Witness ==
  /\ w.pc = "awaitRange"
  /\ Len(http) = 2
  /\ http[2].op = "loadRange"
  /\ http[2].count = 2
  /\ w.groupRaw.formerRef.t = "array"
  /\ w.groupRaw.listAttr.t = "array"

(***************************************************************************)
(* C11: when the decryption of a former-key link fails, loadFormerGroupKey *)
(* returns null, and no key is stored for the target version, neither by   *)
(* the walker nor by the pre-pass of folders list / mails list.            *)
(***************************************************************************)
C11_FailedLinkAddsNothing ==
  LET mailGroupId == getMailMembership(hist.material).group
  IN /\ (w.pc = "returned" /\ w.linkFailed)
          => /\ w.ret = NoKey
             /\ \A i \in 1..Len(cache[w.groupId].keys) :
                  cache[w.groupId].keys[i].k # w.targetKeyVersion
     /\ \A i \in 1..Len(hist.failed) :
          \A j \in 1..Len(cache[mailGroupId].keys) :
            cache[mailGroupId].keys[j].k # hist.failed[i].keyVersion

\* the pre-pass is over: one of its walks failed on a link and another one
\* gave a key
C11_Witness ==
  /\ cli.pc = "fanout"
  /\ hist.failed # <<>>
  /\ hist.walks # <<>>

(***************************************************************************)
(* C12: with a 16-byte group key resolveSessionKey attempts, in this       *)
(* order, the 128-bit decrypt, the 256-bit unauthenticated legacy decrypt  *)
(* and the 256-bit authenticated decrypt; it stops at the first success    *)
(* and returns its result, and returns null only after all three failed.   *)
(***************************************************************************)
\* the group key the call finds, and the wrapped session key it is given
C12_GroupKey ==
  LET g == rs.instance[getOwnerAttrs(rs.typeModel).ownerGroup].s
  IN cache[g].keys[CHOOSE i \in 1..Len(cache[g].keys) :
                     cache[g].keys[i].k = C3_SelectedVersion].v
C12_EncKey == rs.instance[getOwnerAttrs(rs.typeModel).ownerEncSessionKey].blob
C12_ReachesLadder ==
  /\ rs.pc = "done" /\ rs.typeModel.encrypted /\ ~C3_Missing
  /\ rs.instance[getOwnerAttrs(rs.typeModel).ownerEncSessionKey] # InvalidBase64

C13_Order256First ==
  (C12_ReachesLadder /\ C12_GroupKey.len = 32) =>
    LET a == rs.out.attempts
        n == Len(a)
        order == <<"256-legacy", "256", "128">>
        first16 == [id |-> C12_GroupKey.id, len |-> 16]
        succeeds == <<C12_EncKey.wk = C12_GroupKey /\ "legacy" \in C12_EncKey.ok,
                      C12_EncKey.wk = C12_GroupKey /\ "auth" \in C12_EncKey.ok,
                      C12_EncKey.wk = first16 /\ "auth" \in C12_EncKey.ok>>
    IN /\ n \in 1..3
       /\ \A i \in 1..n : a[i].method = order[i] /\ a[i].ok = succeeds[i]
       /\ \A i \in 1..(n - 1) : ~a[i].ok
       /\ a[n].ok => rs.out.result = C12_EncKey.out /\ rs.out.resolved = <<order[n]>>
       /\ ~a[n].ok => n = 3 /\ rs.out.result = NoKey
       /\ rs.out.result = NoKey => n = 3 /\ \A i \in 1..3 : ~a[i].ok

\* the legacy decrypt succeeds at once on a blob that the authenticated
\* decrypt would accept too
C13_Witness ==
  /\ C12_ReachesLadder /\ C12_GroupKey.len = 32
  /\ Len(rs.out.attempts) = 1
  /\ C12_EncKey.ok = {"auth", "legacy"}
  /\ rs.out.result # NoKey

(***************************************************************************)
(* C14: in decryptParsedInstance with a session key, an encrypted          *)
(* attribute with a non-empty wire value is decrypted with the full key    *)
(* and, only when that fails, with the 128-bit companion.  First attempt   *)
(* succeeds: coerced value, no callback.  Only the retry succeeds: coerced *)
(* value and the decrypt-fallback callback.  Both fail: zero value and the *)
(* decrypt-failure callback.                                               *)
(***************************************************************************)
\* the plaintext as a value of the attribute's type
C14_Coerced(type, text) ==
  CASE type = "String" -> Str(text)
    [] type = "CompressedString" -> Str(text)
    [] type = "Bytes" -> BytesV(text)
    [] type = "Number" -> (CASE text = "0" -> Num(0) [] text = "1" -> Num(1) [] OTHER -> NaN)
    [] type = "Date" -> (CASE text = "0" -> DateV(0) [] text = "1" -> DateV(1)
                           [] OTHER -> InvalidDate)
    [] type = "Boolean" -> Bool(text # "0")

C14_IsCipherUnder(key, v) == v.t = "string" /\ v.blob.ok = {"aes"} /\ v.blob.wk = key

C14_FullKeyThenCompanion ==
  (dec.pc = "done" /\ dec.sessionKey # NoKey) =>
    \A k \in DOMAIN dec.typeModel.values \cap DOMAIN dec.instance :
      LET type == dec.typeModel.values[k].type
          v == dec.instance[k]
          first == C14_IsCipherUnder(dec.sessionKey, v)
          retry == C14_IsCipherUnder([id |-> dec.sessionKey.id, len |-> 16], v)
      IN (dec.typeModel.values[k].encrypted /\ v # Null /\ v # Str("")) =>
           /\ first => /\ dec.out.result[k] = C14_Coerced(type, v.s)
                       /\ k \notin dec.out.failed /\ k \notin dec.out.fallback
           /\ (~first /\ retry) => /\ dec.out.result[k] = C14_Coerced(type, v.s)
                                   /\ k \in dec.out.fallback /\ k \notin dec.out.failed
           /\ (~first /\ ~retry) => /\ dec.out.result[k] = C1_Zero(type)
                                    /\ k \in dec.out.failed /\ k \notin dec.out.fallback

\* a 32-byte session key, one attribute encrypted under its 128-bit
\* companion and one under another key
C14_Witness ==
  /\ dec.pc = "done" /\ dec.sessionKey.len = 32
  /\ dec.out.fallback # {}
  /\ \E k \in dec.out.failed : dec.instance[k].blob.ok = {"aes"}

(***************************************************************************)
(* C15: in the retry loop the versions to try are the instance's own       *)
(* _ownerKeyVersion followed by every other version cached for the mail    *)
(* group, whatever the number of cached versions.                          *)
(***************************************************************************)
C15_OwnVersion ==
  IF "1399" \notin DOMAIN rt.safe THEN ""
  ELSE IF rt.safe["1399"].t = "number" THEN String(rt.safe["1399"].n)
  ELSE rt.safe["1399"].s

C15_VersionsTried ==
  rt.pc = "done" =>
    LET others == SelectSeq(rt.availableVersions, LAMBDA v : v # C15_OwnVersion)
    IN /\ rt.out.versionsToTry = <<C15_OwnVersion>> \o others
       /\ (rt.out.triedVersion = NoVersion /\ ~rt.out.threw)
            => rt.out.tried = <<C15_OwnVersion>> \o others

(***************************************************************************)
(* C16: when every tried version fails (no session key, or the name or     *)
(* color failed to decrypt), the decrypted instance is the one produced    *)
(* with a null session key: zero values for the encrypted attributes, the  *)
(* other wire keys unchanged.                                              *)
(***************************************************************************)
C16_AllFailedGivesNullDecrypt ==
  (rt.pc = "done" /\ rt.out.triedVersion = NoVersion /\ ~rt.out.threw) =>
    /\ \A k \in DOMAIN MAIL_SET.values :
         MAIL_SET.values[k].encrypted => rt.out.dec[k] = C1_Zero(MAIL_SET.values[k].type)
    /\ \A k \in DOMAIN rt.safe :
         (k \notin DOMAIN MAIL_SET.values \/ ~MAIL_SET.values[k].encrypted)
           => rt.out.dec[k] = rt.safe[k]

(***************************************************************************)
(* C18: mapWithConcurrency(items, c, fn) never has more than               *)
(* min(c, items.length) invocations of fn started and not yet settled; at  *)
(* most five with c = 5.                                                   *)
(***************************************************************************)
C18_InFlight ==
  {mc.started[i] : i \in 1..Len(mc.started)} \ {mc.order[i] : i \in 1..Len(mc.order)}

C18_BoundedInFlight ==
  mc.pc # "idle" =>
    /\ Cardinality(C18_InFlight) <= mc.concurrency
    /\ Cardinality(C18_InFlight) <= Len(mc.items)
    /\ mc.concurrency = 5 => Cardinality(C18_InFlight) <= 5
    /\ \A i, j \in 1..Len(mc.started) : i # j => mc.started[i] # mc.started[j]

\* six items with a ceiling of five: five in flight, the sixth not started
C18_Witness ==
  /\ mc.pc = "running"
  /\ Len(mc.items) > mc.concurrency
  /\ Cardinality(C18_InFlight) = 5
  /\ Len(mc.started) = 5

(***************************************************************************)
(* C19: the array mapWithConcurrency returns has at position i the result  *)
(* of fn(items[i], i), in whatever order the tasks completed.              *)
(***************************************************************************)
C19_InputOrder ==
  mc.pc = "resolved" =>
    /\ Len(mc.results) = Len(mc.items)
    /\ \A i \in 1..Len(mc.items) :
         mc.results[i] = [item |-> mc.items[i], index |-> i - 1]

\* a call that resolved although a later item completed before an earlier one
C19_Witness ==
  /\ mc.pc = "resolved"
  /\ \E i, j \in 1..Len(mc.order) : i < j /\ mc.order[i] > mc.order[j]
  /\ \E i, j \in 1..Len(mc.items) : mc.items[i] # mc.items[j]

(***************************************************************************)
(* C17: in folders list and mails list every loadFormerGroupKey call and   *)
(* every addGroupKey is over before the first callback of the fan-out      *)
(* starts, and the key chain is not modified while the fan-out runs.       *)
(***************************************************************************)
C17_PopulationBeforeFanout ==
  (mc.pc # "idle") =>
    /\ cli.pc \in {"fanout", "done", "failed"}
    /\ w.pc = "idle"
    /\ cli.i = Len(cli.needed) + 1
    /\ cache = cli.keysAtFanout
    /\ \A i \in 1..Len(hist.walks) :
         \E j \in 1..Len(cache["mg"].keys) :
           cache["mg"].keys[j] = [k |-> hist.walks[i].keyVersion, v |-> hist.walks[i].key]

\* two callbacks of the fan-out have settled after a pre-pass that stored a
\* former key
C17_Witness ==
  /\ cli.pc = "fanout"
  /\ Len(mc.order) = 2
  /\ hist.walks # <<>>

(***************************************************************************)
(* C20: in folders list and mails list a 401 from any authenticated        *)
(* request of the command clears the persisted session, logs in afresh and *)
(* retries the failed request exactly once; only a further 401 after that  *)
(* retry ends the command, with a nonzero exit code and no second retry.   *)
(***************************************************************************)
C20_UnauthorizedRetriedOnce ==
  /\ cmd.pc # "idle" => cmd.unauthorized <= 2
  /\ (cmd.pc = "exited" /\ cmd.last = "401") =>
       /\ cmd.exitCode = 1
       /\ cmd.unauthorized = 2
       /\ cmd.attempts = 2
       /\ cmd.clears >= 1
       /\ cmd.logins >= 1

(***************************************************************************)
(* C27: unwrapSingleElementArray returns the sole element of a one-element *)
(* array, returns an array of any other length unchanged, returns null for *)
(* null and for undefined, and returns any other value unchanged.          *)
(***************************************************************************)
C27_Unwrapped ==
  (pf.pc = "returned" /\ pf.op = "unwrapSingleElementArray") =>
    LET value == pf.arg
    IN CASE value.t = "array" /\ value.len = 1 -> pf.ret = value.first
         [] value.t = "array" /\ value.len # 1 -> pf.ret = value
         [] value.t \in {"null", "undefined"} -> pf.ret.t = "null"
         [] OTHER -> pf.ret = value

\* the argument was an array of two elements
C27_Witness ==
  /\ pf.pc = "returned"
  /\ pf.op = "unwrapSingleElementArray"
  /\ pf.arg.t = "array"
  /\ pf.arg.len = 2
  /\ pf.ret = pf.arg

(***************************************************************************)
(* C30: in folders list the display name of a folder is the decrypted name *)
(* when that name is not empty after trimming; when it is empty or only    *)
(* whitespace the display name comes from folderType: 1 Inbox, 2 Sent,     *)
(* 3 Trash, 4 Archive, 5 Spam, 6 Draft, 10 Scheduled, 8 "Label (no name)", *)
(* 0 "(no name)".                                                          *)
(***************************************************************************)
C30_Table ==
  (1 :> "Inbox") @@ (2 :> "Sent") @@ (3 :> "Trash") @@ (4 :> "Archive") @@ (5 :> "Spam")
  @@ (6 :> "Draft") @@ (10 :> "Scheduled") @@ (8 :> "Label (no name)") @@ (0 :> "(no name)")

C30_Blank(name) == \A i \in 1..Len(name) : name[i] \in {" ", "\t"}

C30_DisplayName ==
  (pf.pc = "returned" /\ pf.op = "displayName") =>
    LET name == pf.arg.name
        folderType == pf.arg.folderType
    IN /\ ~C30_Blank(name) => pf.ret = Join(name)
       /\ C30_Blank(name) =>
            \A n \in DOMAIN C30_Table :
              folderType \in {Num(n), Str(String(n))} => pf.ret = C30_Table[n]

\* a name of one blank with folderType 8
C30_Witness ==
  /\ pf.pc = "returned"
  /\ pf.op = "displayName"
  /\ pf.arg.name = <<" ">>
  /\ pf.arg.folderType = Num(8)
  /\ pf.ret = "Label (no name)"

(***************************************************************************)
(* C26: buildSaltDataRequest(email) is exactly {"418": "0", "419": e},     *)
(* e being the email in lower case without its leading and trailing        *)
(* whitespace; two emails that differ only in letter case or in the        *)
(* whitespace around them give the same body.                              *)
(***************************************************************************)
C26_Lower(c) == IF c = "A" THEN "a" ELSE c

\* the email without the whitespace around it: what is left after i leading
\* and j trailing blanks, when it neither begins nor ends with a blank
C26_Cores(email) ==
  {SubSeq(email, ij[1] + 1, Len(email) - ij[2]) :
     ij \in {p \in (0..Len(email)) \X (0..Len(email)) :
               /\ p[1] + p[2] <= Len(email)
               /\ \A k \in 1..p[1] : email[k] = " "
               /\ \A k \in (Len(email) - p[2] + 1)..Len(email) : email[k] = " "
               /\ p[1] + p[2] < Len(email) =>
                    (email[p[1] + 1] # " " /\ email[Len(email) - p[2]] # " ")}}

C26_SameUpToCase(a, b) ==
  /\ Len(a) = Len(b)
  /\ \A k \in 1..Len(a) : C26_Lower(a[k]) = C26_Lower(b[k])

C26_SaltBody ==
  (pf.pc = "returned" /\ pf.op = "buildSaltDataRequest") =>
    /\ DOMAIN pf.ret = {"418", "419"}
    /\ pf.ret["418"] = "0"
    /\ \A core \in C26_Cores(pf.arg) :
         pf.ret["419"] = Join([k \in 1..Len(core) |-> C26_Lower(core[k])])
    /\ \A other \in Emails :
         (\E c1 \in C26_Cores(pf.arg), c2 \in C26_Cores(other) : C26_SameUpToCase(c1, c2))
           => buildSaltDataRequest(other) = pf.ret

\* " A " gives the address "a"
C26_Witness ==
  /\ pf.pc = "returned"
  /\ pf.op = "buildSaltDataRequest"
  /\ pf.arg = <<" ", "A", " ">>
  /\ pf.ret["419"] = "a"

(***************************************************************************)
(* C29: getMailMembership returns the first membership, in list order,     *)
(* whose groupType is "5", and null when there is none; a membership of    *)
(* another group type is never returned, and createKeyChain plants a key   *)
(* only for the user group and for the group of that membership.           *)
(***************************************************************************)
C29_MailIndexes(material) ==
  {i \in 1..Len(material.memberships) : material.memberships[i].groupType = "5"}

C29_First(material) ==
  CHOOSE i \in C29_MailIndexes(material) : \A j \in C29_MailIndexes(material) : i <= j

C29_MailMembership ==
  /\ (pf.pc = "returned" /\ pf.op = "getMailMembership") =>
       IF C29_MailIndexes(pf.arg) = {}
       THEN pf.ret = NoMembership
       ELSE /\ pf.ret = pf.arg.memberships[C29_First(pf.arg)]
            /\ pf.ret.groupType = "5"
  /\ (pf.pc = "returned" /\ pf.op = "createKeyChain") =>
       \A g \in DOMAIN pf.ret :
         pf.ret[g].present =>
           \/ g = pf.arg.userGroup.group
           \/ /\ C29_MailIndexes(pf.arg) # {}
              /\ g = pf.arg.memberships[C29_First(pf.arg)].group

\* two memberships of type "5" in different groups: the first is returned
C29_Witness ==
  /\ pf.pc = "returned"
  /\ pf.op = "getMailMembership"
  /\ Len(pf.arg.memberships) = 2
  /\ pf.arg.memberships[1].groupType = "5"
  /\ pf.arg.memberships[2].groupType = "5"
  /\ pf.arg.memberships[1].group # pf.arg.memberships[2].group
  /\ pf.ret = pf.arg.memberships[1]

\* a chain made from material whose only membership is of type "4", in a
\* group other than the user group, holds no key for that group
C29_WitnessChain ==
  /\ pf.pc = "returned"
  /\ pf.op = "createKeyChain"
  /\ Len(pf.arg.memberships) = 1
  /\ pf.arg.memberships[1].groupType = "4"
  /\ pf.arg.memberships[1].group # pf.arg.userGroup.group
  /\ ~pf.ret[pf.arg.memberships[1].group].present

(***************************************************************************)
(* C28: parseUserKeyMaterial succeeds exactly when attribute "95", after   *)
(* single-element-array unwrapping, is a non-null object that is no array; *)
(* the user-group material is the same whether "95" came as the object or  *)
(* as a one-element array around it; in every other case (missing, null,   *)
(* empty array, two or more elements, scalar) it throws 'User entity       *)
(* missing or invalid userGroup' and gives no material.                    *)
(***************************************************************************)
\* the object attribute 95 stands for: itself, or the element of an array of one
C28_Object(v) ==
  IF v.t = "object" THEN v.s
  ELSE IF v.t = "array" /\ v.len = 1 /\ v.first.t = "object" THEN v.first.s
  ELSE ""

C28_WitnessThrow ==
  /\ pf.pc = "threw"
  /\ pf.op = "parseUserKeyMaterial"
  /\ pf.arg["95"].t = "array"
  /\ pf.arg["95"].len = 2
  /\ pf.arg["95"].first.t = "object"

\* the calls and requests since getOrCreateSession was last called
SsCallEvents == SubSeq(ss.trace, ss.callAt, Len(ss.trace))
SsNames(events) == [i \in 1..Len(events) |-> events[i].e]

(***************************************************************************)
(* C21: when getOrCreateSession read a persisted session and the probe     *)
(* (verifySession) succeeded, it returns the access token and the user id  *)
(* of the stored session; it asked for no credentials, sent no login       *)
(* request, and neither wrote nor cleared the session file.                *)
(***************************************************************************)
C21_StoredSessionReturned ==
  (/\ ss.pc = "session"
   /\ Len(SsCallEvents) >= 3
   /\ SsCallEvents[3].e = "verifySession"
   /\ SsCallEvents[3].outcome = "ok")
  => /\ ss.result.usedStoredSession
     /\ ss.result.accessToken = ss.fileAtCall.accessToken.s
     /\ ss.result.userId = (IF ss.fileAtCall.userId.t = "string"
                            THEN ss.fileAtCall.userId.s
                            ELSE ss.fileAtCall.userId.first.s)
     /\ SsCallEvents[3].token = ss.fileAtCall.accessToken.s
     /\ SsNames(SsCallEvents) = <<"getOrCreateSession", "readSession", "verifySession">>
     /\ ss.file = ss.fileAtCall

\* the stored session, its user id written as a one-element list, was used
C21_Witness ==
  /\ ss.pc = "session"
  /\ ss.result.usedStoredSession
  /\ ss.fileAtCall.userId.t = "array"
  /\ ss.result.userId = "u"
  /\ ss.result.accessToken = "t0"

(***************************************************************************)
(* C22: when getOrCreateSession read a persisted session and the probe     *)
(* failed (network error or auth failure), clearSession runs next, before  *)
(* credentials are asked for and before any login request, and removes the *)
(* file; then getCredentials, the salt request and the create-session      *)
(* request follow, and after a successful login writeSession is called     *)
(* with baseUrl, the new access token, the user id and the session id,     *)
(* which is then the content of the file (unless the environment disables  *)
(* persistence: then the file is left as it was).  When no session was     *)
(* read the same path runs and no probe is sent.                           *)
(***************************************************************************)
C22_LoginPath == <<"getCredentials", "saltservice", "sessionservice", "writeSession">>

C22_WitnessNoSession ==
  /\ ss.pc = "session"
  /\ ss.fileAtCall = NoFile
  /\ Len(SsCallEvents) = 6
  /\ ss.file.kind = "json"

C23_WitnessFirstLogin ==
  /\ ss.pc = "exited"
  /\ ss.lastError = TwoFactorRequired
  /\ ss.command = "auth check"
  /\ ss.fileAtStart = NoFile
  /\ ss.file = NoFile

(***************************************************************************)
(* C24: in a process whose TUTANOTA_NO_SESSION_PERSISTENCE is 1, true or   *)
(* yes, every readSession returns null, whatever the file holds, and       *)
(* whatever readSession, writeSession and clearSession calls were made the *)
(* session file is as it was when the process started.                     *)
(***************************************************************************)
C24_Disabling == {<<"1">>, <<"t", "r", "u", "e">>, <<"y", "e", "s">>}

C24_WitnessLogout ==
  /\ ss.pc = "exited"
  /\ ss.command = "auth logout"
  /\ ss.env = <<"1">>
  /\ ss.file.kind = "json"

(***************************************************************************)
(* C25: in the command that follows auth logout, getOrCreateSession reads  *)
(* no stored session and sends no probe: it asks for credentials and logs  *)
(* in.                                                                     *)
(***************************************************************************)
C25_LoginAfterLogout ==
  (ss.pc \notin {"idle", "shell"} /\ ss.afterLogout # "no" /\ ss.command \in SsCommands) =>
    /\ ss.trace[2].outcome # "session"
    /\ \A i \in 1..Len(ss.trace) : ss.trace[i].e # "verifySession"
    /\ ss.pc = "session" => ~ss.result.usedStoredSession

(***************************************************************************)
(* C31: for every scalar type, converting the UTF-8 bytes of the text of   *)
(* the type's zero value ("" for String and CompressedString, "0" for      *)
(* Number, Date and Boolean, no bytes for Bytes) gives the value that      *)
(* valueToDefault substitutes for that type.                               *)
(***************************************************************************)
C31_ZeroBytes(type) ==
  IF type \in {ValueType.Number, ValueType.Date, ValueType.Boolean}
  THEN stringToUtf8Uint8Array(0)
  ELSE <<>>

C31_ZeroRoundTrip ==
  (/\ pf.pc = "returned"
   /\ pf.op = "convertDbToJsType"
   /\ pf.arg.type \in ScalarTypes
   /\ pf.arg.decryptedValue = C31_ZeroBytes(pf.arg.type))
  => pf.ret = valueToDefault(pf.arg.type)

\* the bytes of "0" converted as a Boolean
C31_Witness ==
  /\ pf.pc = "returned"
  /\ pf.op = "convertDbToJsType"
  /\ pf.arg.type = ValueType.Boolean
  /\ pf.arg.decryptedValue = <<48>>
  /\ pf.ret = Bool(FALSE)

\* the bytes of "0" converted as a Date
C31_WitnessDate ==
  /\ pf.pc = "returned"
  /\ pf.op = "convertDbToJsType"
  /\ pf.arg.type = ValueType.Date
  /\ pf.arg.decryptedValue = <<48>>
  /\ pf.ret = DateV(0)

(***************************************************************************)
(* C32: readSession returns null and does not throw when persistence is    *)
(* disabled, when the session file is missing, when its content is not     *)
(* valid JSON, and when baseUrl, accessToken or userId is missing or of    *)
(* the wrong type.                                                         *)
(***************************************************************************)
\* the file does not hold a session: the cases the claim lists
C32_NoSessionIn(v, file) ==
  \/ isPersistenceDisabled(v)
  \/ file.kind \in {"none", "corrupt"}
  \/ file.baseUrl.t # "string"
  \/ file.accessToken.t # "string"
  \/ file.userId.t \notin {"string", "array"}
  \/ (file.userId.t = "array" /\ file.userId.len = 0)

\* the readSession call that opens getOrCreateSession read the file as it
\* was at that call
C32_ReadSessionReturnsNull ==
  (ss.pc \notin {"idle", "shell"} /\ ss.callAt > 0
     /\ C32_NoSessionIn(ss.env, ss.fileAtCall)) =>
    ss.trace[ss.callAt + 1].outcome = "null"

(***************************************************************************)
(* C33: whatever commands ran (auth check, folders list, mails list,       *)
(* profile, auth logout), the session file is one the program did not      *)
(* write (as it was found, or removed) or a document with exactly baseUrl, *)
(* accessToken, userId and sessionId: no password, no passphrase key and   *)
(* no key of the key chain is in it.                                       *)
(***************************************************************************)
C33_Tokens == {"t" \o String(n) : n \in 0..(2 * MaxCommands + 1)}

C33_OnlySessionOnDisk ==
  ss.pc # "idle" =>
    \/ ss.file \in InitialFiles
    \/ /\ ss.file.kind = "json"
       /\ ss.file.others = {}
       /\ ss.file.baseUrl = Scalar("string", BaseUrl)
       /\ ss.file.accessToken \in {Scalar("string", t) : t \in C33_Tokens}
       /\ ss.file.userId = Scalar("string", "u")
       /\ ss.file.sessionId

\* the second command, mails list, logged in, wrote its session and went on
\* to create the key chain
C33_Witness ==
  /\ ss.pc = "exited"
  /\ ss.commands = 2
  /\ ss.command = "mails list"
  /\ ss.file.kind = "json"
  /\ ss.file.accessToken.s = "t4"
  /\ \E i \in 1..Len(ss.trace) : ss.trace[i].e = "unlockUserGroupKey"

\* profile wrote the session of its login
C33_WitnessProfile ==
  /\ ss.pc = "exited"
  /\ ss.command = "profile"
  /\ ss.exitCode = 0
  /\ ss.fileAtStart = NoFile
  /\ ss.file.kind = "json"

C36_WitnessAuth ==
  /\ ss.pc = "credentials"
  /\ Len(SsCallEvents) = 4
  /\ SsCallEvents[3].outcome = "auth"
  /\ ss.fileAtCall.accessToken.s = "t0"
  /\ ss.file = NoFile

(***************************************************************************)
(* C37: in folders list and mails list, when getOrCreateSession has just   *)
(* logged in, getPassphraseKeyForDecryption returns the key derived by     *)
(* that login: it asks for credentials and fetches the salt only when the  *)
(* session came from the store.                                            *)
(***************************************************************************)
C37_LoginKeyReused ==
  ss.pc # "idle" =>
    \A i \in 1..Len(ss.trace) :
      (/\ ss.trace[i].e = "getPassphraseKeyForDecryption"
       /\ ss.trace[i].token = "login"
       /\ i < Len(ss.trace))
      => ss.trace[i + 1].e \notin {"getCredentials", "saltservice"}

(***************************************************************************)
(* C34: unlock hands to decryptKey, for the user group blob, the first 16  *)
(* bytes of the passphrase key and, only when that fails, the full key, if *)
(* the passphrase key is longer than 16 bytes; otherwise the full key      *)
(* only.  With a Mail membership the same order is followed for its blob   *)
(* with the user group key just obtained.  Unlock throws, and returns no   *)
(* key chain, exactly when every applicable attempt on one of the blobs    *)
(* failed.                                                                 *)
(***************************************************************************)
C34_First16(key) == [id |-> key.id, len |-> 16]

\* the attempts the claim prescribes for one blob
C34_Order(key, blob) ==
  IF key.len > 16
  THEN IF decryptKeyOk(C34_First16(key), blob) THEN <<C34_First16(key)>>
       ELSE <<C34_First16(key), key>>
  ELSE <<key>>

C34_Opens(key, blob) == \E i \in 1..Len(C34_Order(key, blob)) :
                          decryptKeyOk(C34_Order(key, blob)[i], blob)

C34_TwoStepUnlock ==
  (pf.pc \in {"returned", "threw"} /\ pf.op = "unlockUserGroupKey") =>
    LET key == pf.arg.userPassphraseKey
        userBlob == pf.arg.material.userGroup.symEncGKey
        hasMail == pf.arg.material.memberships # <<>>
        mailBlob == pf.arg.material.memberships[1].symEncGKey
        userOk == C34_Opens(key, userBlob)
    IN /\ pf.tried = C34_Order(key, userBlob)
                       \o (IF userOk /\ hasMail THEN C34_Order(userBlob.out, mailBlob)
                           ELSE <<>>)
       /\ pf.pc = "threw" <=>
            (~userOk \/ (hasMail /\ ~C34_Opens(userBlob.out, mailBlob)))
       /\ pf.pc = "threw" => pf.ret = EmptyCache
       /\ pf.pc = "returned" =>
            /\ getGroupKey(pf.ret, "ug", "0") = userBlob.out
            /\ hasMail => getGroupKey(pf.ret, "mg", "0") = mailBlob.out
            /\ ~hasMail => getGroupKey(pf.ret, "mg", "0") = NoKey

\* both blobs needed the second attempt: 16 bytes, full passphrase key,
\* 16 bytes of the user group key, full user group key
C34_Witness ==
  /\ pf.pc = "returned"
  /\ pf.op = "unlockUserGroupKey"
  /\ Len(pf.tried) = 4
  /\ pf.tried[1].len = 16
  /\ pf.tried[2] = pf.arg.userPassphraseKey
  /\ pf.tried[3].len = 16
  /\ pf.tried[4].len = 32

\* a 16-byte passphrase key: one attempt, and unlock throws
C34_WitnessThrow ==
  /\ pf.pc = "threw"
  /\ pf.op = "unlockUserGroupKey"
  /\ pf.arg.userPassphraseKey.len = 16
  /\ Len(pf.tried) = 1

\* the mail blob opens under neither form of the user group key
C34_WitnessMailThrow ==
  /\ pf.pc = "threw"
  /\ pf.op = "unlockUserGroupKey"
  /\ Len(pf.tried) = 4

(***************************************************************************)
(* C35: in the retry loop a tried version is accepted, and the loop stops  *)
(* there, exactly when a session key was resolved at that version and the  *)
(* decryption with it reported no failure on attribute 435 (name) and none *)
(* on attribute 1479 (color).  After a version that is not accepted the    *)
(* next version in the list is tried, and an accepted version gives the    *)
(* decryption of the whole wire instance under the key resolved at it.     *)
(***************************************************************************)
C35_KeyAt(ver) == resolveSessionKey(cache, rt.safe, MAIL_SET, ver)

C35_DecryptAt(ver) == decryptParsedInstance(MAIL_SET, rt.safe, C35_KeyAt(ver).result)

C35_AcceptedOnNameAndColor ==
  rt.pc = "done" =>
    LET tried == rt.out.tried
        n == Len(tried)
    IN /\ n >= 1
       /\ \A i \in 1..n : tried[i] = rt.out.versionsToTry[i]
       /\ \A i \in 1..n :
            LET key == C35_KeyAt(tried[i])
                out == decryptParsedInstance(MAIL_SET, rt.safe, key.result)
                acceptable == /\ ~key.threw
                              /\ key.result # NoKey
                              /\ "435" \notin out.failed
                              /\ "1479" \notin out.failed
            IN /\ acceptable <=> (i = n /\ rt.out.triedVersion = tried[i])
               /\ (~acceptable /\ i < Len(rt.out.versionsToTry) /\ i = n) => key.threw
               /\ acceptable => /\ rt.out.dec = out.result
                                /\ rt.out.sk = key.result

\* the name decrypts at the instance's version and the color does not; the
\* loop went on to a second version
C35_Witness ==
  /\ rt.pc = "done"
  /\ Len(rt.out.tried) >= 2
  /\ C35_KeyAt(rt.out.tried[1]).result # NoKey
  /\ "435" \notin C35_DecryptAt(rt.out.tried[1]).failed
  /\ "1479" \in C35_DecryptAt(rt.out.tried[1]).failed

\* a second version was accepted after the first resolved no session key
C35_WitnessSecondAccepted ==
  /\ rt.pc = "done"
  /\ Len(rt.out.tried) = 2
  /\ rt.out.triedVersion = rt.out.tried[2]
  /\ C35_KeyAt(rt.out.tried[1]).result = NoKey
  /\ "435" \in DOMAIN rt.safe
  /\ rt.out.dec["435"] = Str("abc")

\* the first version was accepted although others were cached
C35_WitnessFirstAccepted ==
  /\ rt.pc = "done"
  /\ Len(rt.out.versionsToTry) >= 2
  /\ Len(rt.out.tried) = 1
  /\ rt.out.triedVersion = rt.out.tried[1]

(***************************************************************************)
(* C38: decryptParsedInstance never raises, whatever the type model, the   *)
(* wire instance (texts that are no base64 and values that are no text in  *)
(* encrypted attributes included) and the session key.  An attribute whose *)
(* processing fails receives its zero value, every attribute of the type   *)
(* model is still processed and holds what it would hold had the failing   *)
(* attribute been absent, and the instance passed in is left as it was.    *)
(***************************************************************************)
\* the attribute cannot be decrypted: an encrypted attribute with a value,
\* a session key, and no ciphertext under that key or its first 16 bytes
C38_Fails(k) ==
  /\ k \in DOMAIN dec.typeModel.values
  /\ dec.typeModel.values[k].encrypted
  /\ dec.sessionKey # NoKey
  /\ k \in DOMAIN dec.instance
  /\ dec.instance[k] \notin {Null, Str("")}
  /\ \/ dec.instance[k].t # "string"
     \/ "aes" \notin dec.instance[k].blob.ok
     \/ dec.instance[k].blob.wk \notin {dec.sessionKey, [id |-> dec.sessionKey.id, len |-> 16]}

C38_Without(k) == [j \in DOMAIN dec.instance \ {k} |-> dec.instance[j]]

C38_FailuresConfined ==
  dec.pc = "done" =>
    /\ ~dec.run.raised
    /\ dec.run.processed = DOMAIN dec.typeModel.values
    /\ DOMAIN dec.run.result = DOMAIN dec.typeModel.values \cup DOMAIN dec.instance
    /\ dec.run.instance = dec.instance
    /\ dec.run.result = dec.out.result
    /\ \A k \in DOMAIN dec.typeModel.values \ DOMAIN dec.instance : k \notin dec.run.failed
    /\ \A k \in DOMAIN dec.typeModel.values \cap DOMAIN dec.instance :
         LET fails == C38_Fails(k)
             without == decryptParsedInstance(dec.typeModel, C38_Without(k),
                                              dec.sessionKey).result
         IN /\ fails <=> k \in dec.run.failed
            /\ fails =>
                 /\ dec.run.result[k] = C1_Zero(dec.typeModel.values[k].type)
                 /\ \A j \in DOMAIN dec.run.result \ {k} : dec.run.result[j] = without[j]

\* one attribute holds a text that is no base64 and another a ciphertext
\* that decrypts
C38_Witness ==
  /\ dec.pc = "done"
  /\ \E k, j \in DOMAIN dec.typeModel.values :
       /\ C38_Fails(k)
       /\ dec.instance[k] = Str("folder-id")
       /\ dec.typeModel.values[j].encrypted
       /\ j \in DOMAIN dec.instance
       /\ dec.instance[j].blob.wk = dec.sessionKey
       /\ dec.run.result[j] # C1_Zero(dec.typeModel.values[j].type)

\* encrypted attributes holding a number and an array
C38_WitnessNonText ==
  /\ dec.pc = "done"
  /\ \E k, j \in DOMAIN dec.typeModel.values :
       /\ C38_Fails(k) /\ C38_Fails(j)
       /\ dec.instance[k] = Num(0)
       /\ dec.instance[j] = Aggregate("ref")

(***************************************************************************)
(* C39 as worded: whenever loadFormerGroupKey returns without having       *)
(* issued a range query, it returns null.                                  *)
(***************************************************************************)
C39_RangeQueries == {i \in 1..Len(http) : http[i].op = "loadRange"}

C39_NullWithoutRangeQuery ==
  (w.pc = "returned" /\ C39_RangeQueries = {}) => w.ret = NoKey

(***************************************************************************)
(* C39: loadFormerGroupKey issues HTTP calls only when both version texts  *)
(* are non-negative integers, target < current and the key at the current  *)
(* version is cached: then one Group load, followed by at most one         *)
(* GroupKey range query, issued only if the loaded Group carries a         *)
(* former-keys list id.  Without a range query it raises (invalid version  *)
(* text, failed Group load), returns the key cached at the target version  *)
(* or null when current <= target, and returns null otherwise.             *)
(***************************************************************************)
\* the texts of the model that are decimal numerals, or "" (which is 0)
C39_IsVersionText(s) == s \in {"", "01"} \cup {String(n) : n \in 0..(MaxVer + 1)}

\* attribute 2273 holds one aggregate, alone or in a one-element array, and
\* its attribute 2269 a text, alone or first in an array
C39_HasListId(groupRaw) ==
  /\ \/ groupRaw.formerRef.t = "object"
     \/ /\ groupRaw.formerRef.t = "array"
        /\ groupRaw.formerRef.len = 1
        /\ groupRaw.formerRef.first.t = "object"
  /\ \/ groupRaw.listAttr.t = "string"
     \/ groupRaw.listAttr.t = "array" /\ groupRaw.listAttr.first.t = "string"

C39_WalkNeeded ==
  /\ C39_IsVersionText(w.currentKeyVersion)
  /\ C39_IsVersionText(w.targetKeyVersion)
  /\ Number(w.targetKeyVersion) < Number(w.currentKeyVersion)
  /\ C9_Cached(w.groupId, w.currentKeyVersion) # NoKey

C39_HttpCalls ==
  w.pc # "idle" =>
    /\ http # <<>> <=> C39_WalkNeeded
    /\ Len(http) <= 2
    /\ http # <<>> => /\ http[1].op = "loadEntity"
                      /\ http[1].typeModel = "Group"
                      /\ http[1].id = w.groupId
    /\ Len(http) = 2 => /\ http[2].op = "loadRange"
                        /\ http[2].typeModel = "GroupKey"
                        /\ C39_HasListId(w.groupRaw)
    /\ (Len(http) = 1 /\ w.pc = "returned") => ~C39_HasListId(w.groupRaw)
    /\ (~C39_IsVersionText(w.currentKeyVersion) \/ ~C39_IsVersionText(w.targetKeyVersion))
         => w.pc = "threw"
    /\ (w.pc = "returned" /\ C39_RangeQueries = {}) =>
         IF C39_WalkNeeded THEN w.ret = NoKey
         ELSE IF Number(w.currentKeyVersion) <= Number(w.targetKeyVersion)
           THEN w.ret = C9_Cached(w.groupId, w.targetKeyVersion)
         ELSE w.ret = NoKey

\* the Group was loaded, carries no list id, and the walker returned null
C39_Witness ==
  /\ w.pc = "returned"
  /\ Len(http) = 1
  /\ w.groupRaw.formerRef.t = "array"
  /\ w.groupRaw.formerRef.len = 2
  /\ w.ret = NoKey

\* one Group load then one range query, and the walk returned a key
C39_WitnessRange ==
  /\ w.pc = "returned"
  /\ Len(http) = 2
  /\ w.ret # NoKey
  /\ w.links >= 1

\* target < current with no key cached at the current version: no request
C39_WitnessNotCached ==
  /\ w.pc = "returned"
  /\ http = <<>>
  /\ C39_IsVersionText(w.currentKeyVersion)
  /\ Number(w.targetKeyVersion) < Number(w.currentKeyVersion)
  /\ w.ret = NoKey

(***************************************************************************)
(* C40: whatever the input list and the interleaving of the workers,       *)
(* mapWithConcurrency never invokes fn twice for an index and never passes *)
(* over an index: the indices fn was invoked for are 0, 1, 2, ... with no  *)
(* gap, each with its own item, and all of 0..items.length-1 once the      *)
(* promise resolves.  If every invocation of fn settles, and none rejects, *)
(* the promise resolves at some time with every result filled in.          *)
(***************************************************************************)
C40_ExactlyOnce ==
  mc.pc # "idle" =>
    /\ Len(mc.started) <= Len(mc.items)
    /\ \A i \in 1..Len(mc.started) : mc.started[i] = i
    /\ \A i \in 1..Len(mc.items) :
         mc.results[i] # Unset =>
           /\ mc.results[i] = [item |-> mc.items[i], index |-> i - 1]
           /\ i \in {mc.started[j] : j \in 1..Len(mc.started)}
    /\ mc.pc = "resolved" => Len(mc.started) = Len(mc.items)

C40_AllFilled ==
  /\ mc.pc = "resolved"
  /\ Len(mc.results) = Len(mc.items)
  /\ \A i \in 1..Len(mc.items) : mc.results[i] # Unset
  /\ {mc.started[j] : j \in 1..Len(mc.started)} = 1..Len(mc.items)

C40_NoneRejects == mc.pc # "idle" => ~mc.rejected

C40_EachOnceAndResolves ==
  /\ []C40_ExactlyOnce
  /\ ([]C40_NoneRejects) => [](mc.pc = "running" => <>C40_AllFilled)

\* more items than workers, completed out of input order, all filled in
C40_Witness ==
  /\ C40_AllFilled
  /\ Len(mc.items) > mc.concurrency
  /\ mc.concurrency >= 2
  /\ \E i, j \in 1..Len(mc.order) : i < j /\ mc.order[i] > mc.order[j]

\* a rejected call in which fn was never invoked for the last item
C40_WitnessRejected ==
  /\ mc.pc = "rejected"
  /\ \A k \in 1..Len(mc.at) : mc.at[k] = 0
  /\ Len(mc.started) < Len(mc.items)

====
